---- MODULE Spec2Model ----
(***************************************************************************)
(* A model of the velocypack Builder (include/velocypack/Builder.h): the   *)
(* append cursor, the stack of open containers, the index vector and the   *)
(* key/value toggle, driven by the public add/open/close operations.       *)
(*                                                                         *)
(* A builder is the record                                                 *)
(*   [buf, size, owned, bufferPtr, pos, stack, indexes, keyWritten, exc]   *)
(* buf is the memory behind _start (every byte written so far, also the    *)
(* stale ones behind pos) and size the size of the Buffer object it        *)
(* belongs to; owned says that _buffer is set (the builder owns the        *)
(* Buffer), bufferPtr that _bufferPtr is; exc is the exception in flight   *)
(* ("" for none).                                                          *)
(* Every member function is an operator from such a record to the record   *)
(* it leaves behind; a throw sets exc and keeps whatever was changed up to *)
(* the throw, a catch block is an IF on exc.                               *)
(***************************************************************************)
EXTENDS Integers, Sequences, FiniteSets, TLC

VARIABLES buffer, bufferSize, bufferOwned, bufferPtr, pos, stack, indexes,
          keyWritten, options, guards, op, err, nops

vars ==
  <<buffer, bufferSize, bufferOwned, bufferPtr, pos, stack, indexes,
    keyWritten, options, guards, op, err, nops>>

\* the number of calls made on one builder
MaxOps == 4

-----------------------------------------------------------------------------
(* Exceptions *)

NoExc == ""

\* pop_back on an empty vector (cleanupAdd without a reported entry)
UB == "UndefinedBehaviour"

Throw(r, e) == [r EXCEPT !.exc = e]

Thrown(r) == r.exc # NoExc

-----------------------------------------------------------------------------
(* Buffer access *)

\* _start[i] = v, for i at most the number of bytes written so far
WriteAt(buf, i, v) ==
  IF i < Len(buf) THEN [buf EXCEPT ![i + 1] = v] ELSE Append(buf, v)

\* _start[i]
ByteAt(r, i) == r.buf[i + 1]

reserve(r, len) == r

\* _start[_pos++] = value; _bufferPtr->advance()
appendByteUnchecked(r, value) ==
  [r EXCEPT !.buf = WriteAt(r.buf, r.pos, value), !.pos = r.pos + 1,
            !.size = r.size + 1]

appendByte(r, value) == appendByteUnchecked(reserve(r, 1), value)

\* memcpy(_start + i, bytes, l), for i at most the number of bytes written
WriteSeqAt(buf, i, bytes) ==
  LET n == IF i + Len(bytes) > Len(buf) THEN i + Len(bytes) ELSE Len(buf)
  IN [k \in 1..n |->
        IF k > i /\ k <= i + Len(bytes) THEN bytes[k - i] ELSE buf[k]]

\* memcpy(_start + _pos, bytes, l); advance(l)
appendBytes(r, bytes) ==
  [r EXCEPT !.buf = WriteSeqAt(r.buf, r.pos, bytes),
            !.pos = r.pos + Len(bytes),
            !.size = r.size + Len(bytes)]

isClosed(r) == r.stack = <<>>

isEmpty(r) == r.pos = 0

Top(r) == r.stack[Len(r.stack)]

isOpenArray(r) ==
  IF r.stack = <<>> THEN FALSE
  ELSE ByteAt(r, Top(r).startPos) \in {6, 19}

isOpenObject(r) ==
  IF r.stack = <<>> THEN FALSE
  ELSE ByteAt(r, Top(r).startPos) \in {11, 20}

-----------------------------------------------------------------------------
(* Slice: the type of an encoded value, from its head byte *)

SliceIsString(item) == item[1] >= 64 /\ item[1] <= 191

SliceIsSmallInt(item) == item[1] >= 48 /\ item[1] <= 63

SliceIsUInt(item) == item[1] >= 40 /\ item[1] <= 47

-----------------------------------------------------------------------------
(* Index bookkeeping *)

reportAdd(r) == [r EXCEPT !.indexes = Append(r.indexes, r.pos)]

cleanupAdd(r) ==
  IF r.indexes = <<>> THEN Throw(r, UB)
  ELSE [r EXCEPT !.indexes = SubSeq(r.indexes, 1, Len(r.indexes) - 1)]

-----------------------------------------------------------------------------
(* Key/value toggle *)

\* the toggle without the test of the key's type
checkKeyHasValidTypeBool_Unchecked(r, isValid) ==
  IF r.stack # <<>> THEN
    IF ByteAt(r, Top(r).startPos) \in {11, 20} THEN
      [r EXCEPT !.keyWritten = ~r.keyWritten]
    ELSE r
  ELSE r

checkKeyHasValidTypeBool(r, isValid) ==
  IF r.stack # <<>> THEN
    IF ByteAt(r, Top(r).startPos) \in {11, 20} THEN
      IF ~r.keyWritten /\ ~isValid THEN Throw(r, "BuilderKeyMustBeString")
      ELSE [r EXCEPT !.keyWritten = ~r.keyWritten]
    ELSE r
  ELSE r

checkKeyHasValidTypeSlice(r, item) ==
  IF r.stack # <<>> THEN
    IF ByteAt(r, Top(r).startPos) \in {11, 20} THEN
      IF ~r.keyWritten /\ ~SliceIsString(item) /\ ~SliceIsSmallInt(item)
         /\ ~SliceIsUInt(item)
      THEN Throw(r, "BuilderKeyMustBeString")
      ELSE [r EXCEPT !.keyWritten = ~r.keyWritten]
    ELSE r
  ELSE r

-----------------------------------------------------------------------------
(* Containers *)

addCompoundValue(r, type) ==
  LET r1 == [reserve(r, 9) EXCEPT
               !.stack = Append(r.stack, [startPos |-> r.pos,
                                          indexStartPos |-> Len(r.indexes)])]
  IN appendBytes(appendByteUnchecked(r1, type), <<0, 0, 0, 0, 0, 0, 0, 0>>)

addArray(r, unindexed) == addCompoundValue(r, IF unindexed THEN 19 ELSE 6)

addObject(r, unindexed) == addCompoundValue(r, IF unindexed THEN 20 ELSE 11)

\* the parent tested against the indexed Array head 0x06 alone
openCompoundValue_IndexedOnly(r, type) ==
  IF r.stack = <<>> THEN addCompoundValue(r, type)
  ELSE IF r.keyWritten THEN
    addCompoundValue([r EXCEPT !.keyWritten = FALSE], type)
  ELSE IF ByteAt(r, Top(r).startPos) # 6 THEN
    Throw(r, "BuilderNeedOpenArray")
  ELSE
    LET r1 == addCompoundValue(reportAdd(r), type)
    IN IF Thrown(r1) THEN cleanupAdd(r1) ELSE r1

openCompoundValue(r, type) ==
  IF r.stack = <<>> THEN addCompoundValue(r, type)
  ELSE IF r.keyWritten THEN
    addCompoundValue([r EXCEPT !.keyWritten = FALSE], type)
  ELSE IF ByteAt(r, Top(r).startPos) \notin {6, 19} THEN
    Throw(r, "BuilderNeedOpenArray")
  ELSE
    LET r1 == addCompoundValue(reportAdd(r), type)
    IN IF Thrown(r1) THEN cleanupAdd(r1) ELSE r1

openArray(r, unindexed) == openCompoundValue(r, IF unindexed THEN 19 ELSE 6)

openObject(r, unindexed) == openCompoundValue(r, IF unindexed THEN 20 ELSE 11)

-----------------------------------------------------------------------------
(* What a caller hands to add: a Value, a pre-encoded Slice or a           *)
(* Serializable.  One record shape for all three:                          *)
(*   kind      "Value" | "Slice" | "Serializable"                         *)
(*   t         the ValueType of a Value                                    *)
(*   str       the bytes of a String Value                                 *)
(*   unindexed the flag of an Array or Object Value                        *)
(*   bytes     the encoded bytes of a Slice (the eight bytes of an         *)
(*             integer handed to addInt or addUInt)                        *)
(*   beh       what the Serializable's toVelocyPack does with the builder  *)

Sub(kind, t, str, unindexed, bytes, beh) ==
  [kind |-> kind, t |-> t, str |-> str, unindexed |-> unindexed,
   bytes |-> bytes, beh |-> beh]

Value(t) == Sub("Value", t, <<>>, FALSE, <<>>, "")

StringValue(s) == Sub("Value", "String", s, FALSE, <<>>, "")

CompoundValue(t, unindexed) == Sub("Value", t, <<>>, unindexed, <<>>, "")

SliceOf(bytes) == Sub("Slice", "", <<>>, FALSE, bytes, "")

Serializable(beh) == Sub("Serializable", "", <<>>, FALSE, <<>>, beh)

\* the attribute translator's table: "a" has the one-byte token SmallInt 1,
\* every other name has none (<<>> stands for nullptr)
translate(attrName) == IF attrName = <<97>> THEN <<49>> ELSE <<>>

-----------------------------------------------------------------------------
(* Scalars *)

addNull(r) == appendByte(r, 24)

\* a String of at most 126 bytes: head 0x40 + length, then the bytes
addString(r, s) == appendBytes(appendByte(r, 64 + Len(s)), s)

\* the tagged-value prefix: 0xee and one byte, or 0xef and eight
appendTag(r, tag) ==
  IF tag <= 255 THEN appendBytes(r, <<238, tag>>)
  ELSE appendBytes(r, <<239>> \o [i \in 1..8 |-> (tag \div (256 ^ (i - 1))) % 256])

-----------------------------------------------------------------------------
(* set and the add family.  set(Serializable) runs the caller's            *)
(* toVelocyPack, which adds to this builder through add(Value).            *)

RECURSIVE set(_, _, _)
RECURSIVE addInternal(_, _, _)
\* addInt and addUInt are defined with the 64-bit arithmetic, further down
RECURSIVE addInt(_, _)
RECURSIVE addUInt(_, _)

setValue(r, o, item) ==
  LET r1 == checkKeyHasValidTypeBool(r, item.t = "String")
  IN IF Thrown(r1) THEN r1
     ELSE CASE item.t = "Null" -> addNull(r1)
            [] item.t = "String" -> addString(r1, item.str)
            [] item.t = "Int" -> addInt(r1, item.bytes)
            [] item.t = "UInt" -> addUInt(r1, item.bytes)
            [] item.t = "Array" -> addArray(r1, item.unindexed)
            [] item.t = "Object" -> addObject(r1, item.unindexed)
            [] OTHER -> Throw(r1, "BuilderUnexpectedType")

setSlice(r, o, item) ==
  LET r1 == checkKeyHasValidTypeSlice(r, item.bytes)
  IN IF Thrown(r1) THEN r1 ELSE appendBytes(r1, item.bytes)

setSerializable(r, o, sable) ==
  CASE sable.beh = "throw" -> Throw(r, "SerializerFailed")
    [] sable.beh = "add" -> addInternal(r, o, Value("Null"))
    [] sable.beh = "addthrow" ->
         LET r1 == addInternal(r, o, Value("Null"))
         IN IF Thrown(r1) THEN r1 ELSE Throw(r1, "SerializerFailed")

set(r, o, sub) ==
  CASE sub.kind = "Value" -> setValue(r, o, sub)
    [] sub.kind = "Slice" -> setSlice(r, o, sub)
    [] sub.kind = "Serializable" -> setSerializable(r, o, sub)

\* the add never reported to the open frame
addInternal_NoReport(r, o, sub) ==
  LET r2 == set(r, o, sub)
  IN IF Thrown(r2) /\ r.stack # <<>> /\ sub.kind # "Serializable"
     THEN cleanupAdd(r2) ELSE r2

\* the add reported also when no frame is open
addInternal_ReportsAtTopLevel(r, o, sub) ==
  IF sub.kind = "Serializable" THEN set(r, o, sub)
  ELSE
    LET r1 == IF ~r.keyWritten THEN reportAdd(r) ELSE r
        r2 == set(r1, o, sub)
    IN IF Thrown(r2) THEN cleanupAdd(r2) ELSE r2

addInternal(r, o, sub) ==
  IF r.stack = <<>> \/ sub.kind = "Serializable" THEN set(r, o, sub)
  ELSE
    LET r1 == IF ~r.keyWritten THEN reportAdd(r) ELSE r
        r2 == set(r1, o, sub)
    IN IF Thrown(r2) THEN cleanupAdd(r2) ELSE r2

addInternalTagged(r, o, tag, sub) ==
  IF r.stack = <<>> THEN
    set(IF tag # 0 THEN appendTag(r, tag) ELSE r, o, sub)
  ELSE
    LET r1 == IF ~r.keyWritten THEN reportAdd(r) ELSE r
        r2 == set(IF tag # 0 THEN appendTag(r1, tag) ELSE r1, o, sub)
    IN IF Thrown(r2) THEN cleanupAdd(r2) ELSE r2

writeValue(r, o, sub) == set([r EXCEPT !.keyWritten = TRUE], o, sub)

writeValueTagged(r, o, tag, sub) ==
  LET r1 == [r EXCEPT !.keyWritten = TRUE]
  IN set(IF tag # 0 THEN appendTag(r1, tag) ELSE r1, o, sub)

\* add key/value without the test for a pending key
addInternalKey_NoPendingKeyTest(r, o, attrName, sub) ==
  IF r.stack # <<>> /\ ByteAt(r, Top(r).startPos) \notin {11, 20} THEN
    Throw(r, "BuilderNeedOpenObject")
  ELSE
    LET haveReported == r.stack # <<>>
        r1 == IF haveReported THEN reportAdd(r) ELSE r
        translated == IF o.attributeTranslator THEN translate(attrName)
                      ELSE <<>>
        r2 == IF translated # <<>> THEN
                writeValue(appendBytes(reserve(r1, Len(translated)),
                                       translated), o, sub)
              ELSE
                LET rk == set(r1, o, StringValue(attrName))
                IN IF Thrown(rk) THEN rk ELSE writeValue(rk, o, sub)
    IN IF Thrown(r2) /\ haveReported THEN cleanupAdd(r2) ELSE r2

\* add key/value that never asks the attribute translator
addInternalKey_NoTranslation(r, o, attrName, sub) ==
  IF r.stack # <<>> /\ ByteAt(r, Top(r).startPos) \notin {11, 20} THEN
    Throw(r, "BuilderNeedOpenObject")
  ELSE IF r.stack # <<>> /\ r.keyWritten THEN
    Throw(r, "BuilderKeyAlreadyWritten")
  ELSE
    LET haveReported == r.stack # <<>>
        r1 == IF haveReported THEN reportAdd(r) ELSE r
        rk == set(r1, o, StringValue(attrName))
        r2 == IF Thrown(rk) THEN rk ELSE writeValue(rk, o, sub)
    IN IF Thrown(r2) /\ haveReported THEN cleanupAdd(r2) ELSE r2

addInternalKey(r, o, attrName, sub) ==
  IF r.stack # <<>> /\ ByteAt(r, Top(r).startPos) \notin {11, 20} THEN
    Throw(r, "BuilderNeedOpenObject")
  ELSE IF r.stack # <<>> /\ r.keyWritten THEN
    Throw(r, "BuilderKeyAlreadyWritten")
  ELSE
    LET haveReported == r.stack # <<>>
        r1 == IF haveReported THEN reportAdd(r) ELSE r
        translated == IF o.attributeTranslator THEN translate(attrName)
                      ELSE <<>>
        r2 == IF translated # <<>> THEN
                writeValue(appendBytes(reserve(r1, Len(translated)),
                                       translated), o, sub)
              ELSE
                LET rk == set(r1, o, StringValue(attrName))
                IN IF Thrown(rk) THEN rk ELSE writeValue(rk, o, sub)
    IN IF Thrown(r2) /\ haveReported THEN cleanupAdd(r2) ELSE r2

addInternalTaggedKey(r, o, attrName, tag, sub) ==
  IF r.stack # <<>> /\ ByteAt(r, Top(r).startPos) \notin {11, 20} THEN
    Throw(r, "BuilderNeedOpenObject")
  ELSE IF r.stack # <<>> /\ r.keyWritten THEN
    Throw(r, "BuilderKeyAlreadyWritten")
  ELSE
    LET haveReported == r.stack # <<>>
        r1 == IF haveReported THEN reportAdd(r) ELSE r
        translated == IF o.attributeTranslator THEN translate(attrName)
                      ELSE <<>>
        r2 == IF translated # <<>> THEN
                writeValueTagged(appendBytes(reserve(r1, Len(translated)),
                                             translated), o, tag, sub)
              ELSE
                LET rk == set(r1, o, StringValue(attrName))
                IN IF Thrown(rk) THEN rk
                   ELSE writeValueTagged(rk, o, tag, sub)
    IN IF Thrown(r2) /\ haveReported THEN cleanupAdd(r2) ELSE r2

\* the address stored by addExternal: sizeof(void*) = 8 bytes
PointerBytes == <<16, 32, 48, 64, 0, 0, 0, 0>>

\* pointee: the bytes the pointer refers to, which Slice(sub) reads
addExternal(r, o, pointee) ==
  IF o.disallowExternals THEN Throw(r, "BuilderExternalsDisallowed")
  ELSE
    LET haveReported == r.stack # <<>> /\ ~r.keyWritten
        r1 == IF haveReported THEN reportAdd(r) ELSE r
        r2 == checkKeyHasValidTypeSlice(r1, pointee)
        r3 == IF Thrown(r2) THEN r2
              ELSE appendBytes(appendByteUnchecked(reserve(r2, 9), 29),
                               PointerBytes)
    IN IF Thrown(r3) /\ haveReported THEN cleanupAdd(r3) ELSE r3

-----------------------------------------------------------------------------
(* Encoded values: sizes, as a reader of the buffer computes them *)

\* v as w little-endian bytes
LEBytes(v, w) == [i \in 1..w |-> (v \div (256 ^ (i - 1))) % 256]

\* the number of base-128 digits of v
RECURSIVE getVariableValueLength(_)
getVariableValueLength(v) ==
  IF v < 128 THEN 1 ELSE 1 + getVariableValueLength(v \div 128)

\* v as a little-endian base-128 varint, continuation bit 0x80
RECURSIVE storeVariableValueLength(_)
storeVariableValueLength(v) ==
  IF v < 128 THEN <<v>>
  ELSE <<128 + (v % 128)>> \o storeVariableValueLength(v \div 128)

Reverse(q) == [i \in 1..Len(q) |-> q[Len(q) + 1 - i]]

\* the varint that starts at offset i of buf (0 when it runs past lim)
RECURSIVE readVariableValueLength(_, _, _)
readVariableValueLength(buf, i, lim) ==
  IF i >= lim THEN 0
  ELSE IF buf[i + 1] < 128 THEN buf[i + 1]
  ELSE (buf[i + 1] - 128) + 128 * readVariableValueLength(buf, i + 1, lim)

\* the offset behind the value whose head is at offset i, -1 when the bytes
\* of [i, lim) do not hold a complete value
RECURSIVE ValueEnd(_, _, _)
ValueEnd(buf, i, lim) ==
  IF i >= lim THEN -1
  ELSE
    LET h == buf[i + 1]
        e == CASE h \in {1, 10, 24, 25, 26} -> i + 1
               [] h = 27 \/ h = 28 \/ h = 29 -> i + 9
               [] h >= 32 /\ h <= 39 -> i + 1 + (h - 31)
               [] h >= 40 /\ h <= 47 -> i + 1 + (h - 39)
               [] h >= 48 /\ h <= 63 -> i + 1
               [] h >= 64 /\ h <= 190 -> i + 1 + (h - 64)
               [] h = 6 \/ h = 11 ->
                    IF i + 1 < lim /\ buf[i + 2] >= 3 THEN i + buf[i + 2]
                    ELSE -1
               [] h = 19 \/ h = 20 ->
                    LET l == readVariableValueLength(buf, i + 1, lim)
                    IN IF l >= 3 THEN i + l ELSE -1
               [] h = 238 -> ValueEnd(buf, i + 2, lim)
               [] h = 239 -> ValueEnd(buf, i + 9, lim)
               [] OTHER -> -1
    IN IF e > lim THEN -1 ELSE e

\* the number of complete values in [i, lim), -1 when the bytes do not
\* split into complete values
RECURSIVE CountValues(_, _, _)
CountValues(buf, i, lim) ==
  IF i = lim THEN 0
  ELSE LET e == ValueEnd(buf, i, lim)
       IN IF e = -1 THEN -1
          ELSE LET c == CountValues(buf, e, lim)
               IN IF c = -1 THEN -1 ELSE c + 1

-----------------------------------------------------------------------------
(* close *)

closeLevel(r) ==
  [r EXCEPT !.stack = SubSeq(r.stack, 1, Len(r.stack) - 1),
            !.indexes = SubSeq(r.indexes, 1, Top(r).indexStartPos)]

\* the singleton written, the eight reserved bytes kept
closeEmptyArrayOrObject_NoRollback(r, p, isArray) ==
  closeLevel([r EXCEPT !.buf = WriteAt(r.buf, p, IF isArray THEN 1 ELSE 10)])

closeEmptyArrayOrObject(r, p, isArray) ==
  closeLevel([r EXCEPT !.buf = WriteAt(r.buf, p, IF isArray THEN 1 ELSE 10),
                       !.pos = p + 1,
                       !.size = r.size - (r.pos - (p + 1))])

\* the bytes of the key at offset off: a String's characters; a translated
\* key (a one-byte integer token) has the name it stands for
KeyBytes(buf, off, o) ==
  LET h == buf[off + 1]
  IN IF h >= 64 /\ h <= 190 THEN SubSeq(buf, off + 2, off + 1 + (h - 64))
     ELSE IF o.attributeTranslator /\ h = 49 THEN <<97>>
     ELSE <<>>

\* unsigned byte-wise lexicographic order, a proper prefix is smaller
RECURSIVE SeqLess(_, _)
SeqLess(a, b) ==
  IF b = <<>> THEN FALSE
  ELSE IF a = <<>> THEN TRUE
  ELSE IF Head(a) # Head(b) THEN Head(a) < Head(b)
  ELSE SeqLess(Tail(a), Tail(b))

\* insert offset x into the sorted sequence q
RECURSIVE InsertSorted(_, _, _, _)
InsertSorted(buf, o, q, x) ==
  IF q = <<>> THEN <<x>>
  ELSE IF SeqLess(KeyBytes(buf, x, o), KeyBytes(buf, Head(q), o))
       THEN <<x>> \o q
  ELSE <<Head(q)>> \o InsertSorted(buf, o, Tail(q), x)

RECURSIVE sortObjectIndexShort(_, _, _)
sortObjectIndexShort(buf, o, q) ==
  IF q = <<>> THEN <<>>
  ELSE InsertSorted(buf, o,
                    sortObjectIndexShort(buf, o, SubSeq(q, 1, Len(q) - 1)),
                    q[Len(q)])

\* merge two sorted sequences of offsets
RECURSIVE Merge(_, _, _, _)
Merge(buf, o, a, b) ==
  IF a = <<>> THEN b
  ELSE IF b = <<>> THEN a
  ELSE IF SeqLess(KeyBytes(buf, Head(b), o), KeyBytes(buf, Head(a), o))
       THEN <<Head(b)>> \o Merge(buf, o, a, Tail(b))
  ELSE <<Head(a)>> \o Merge(buf, o, Tail(a), b)

\* the sort for long index ranges: the offsets in the order of their keys
\* (where two keys are equal, their order is whatever the sort leaves)
RECURSIVE sortObjectIndexLong(_, _, _)
sortObjectIndexLong(buf, o, q) ==
  IF Len(q) <= 1 THEN q
  ELSE LET h == Len(q) \div 2
       IN Merge(buf, o, sortObjectIndexLong(buf, o, SubSeq(q, 1, h)),
                sortObjectIndexLong(buf, o, SubSeq(q, h + 1, Len(q))))

\* the longest index range that is sorted by insertion
SortShortMax == 32

\* long index ranges left as they were inserted
sortObjectIndex_LongUnsorted(buf, o, q) ==
  IF Len(q) > SortShortMax THEN q ELSE sortObjectIndexShort(buf, o, q)

sortObjectIndex(buf, o, q) ==
  IF Len(q) > SortShortMax THEN sortObjectIndexLong(buf, o, q)
  ELSE sortObjectIndexShort(buf, o, q)

\* no two neighbours of the sorted index have the same key
checkAttributeUniquenessSorted(buf, o, sorted) ==
  \A i \in 1..(Len(sorted) - 1) :
    KeyBytes(buf, sorted[i], o) # KeyBytes(buf, sorted[i + 1], o)

\* no two keys of the object are the same
checkAttributeUniquenessUnsorted(buf, o, inserted) ==
  \A i, j \in 1..Len(inserted) :
    i < j => KeyBytes(buf, inserted[i], o) # KeyBytes(buf, inserted[j], o)

\* only keys inserted one after the other compared
checkAttributeUniqueness_Consecutive(buf, o, inserted, sorted, isSorted) ==
  \A i \in 1..(Len(inserted) - 1) :
    KeyBytes(buf, inserted[i], o) # KeyBytes(buf, inserted[i + 1], o)

checkAttributeUniqueness(buf, o, inserted, sorted, isSorted) ==
  IF isSorted THEN checkAttributeUniquenessSorted(buf, o, sorted)
  ELSE checkAttributeUniquenessUnsorted(buf, o, inserted)

\* head, varint byte length, the children, the number of children as a
\* reversed varint at the tail; an Object's keys are tested before anything
\* is written
closeCompactArrayOrObject(r, o, p, isArray, childOffsets) ==
  LET n == Len(childOffsets)
      body == SubSeq(r.buf, p + 10, r.pos)
      nLen == getVariableValueLength(n)
      size0 == 1 + Len(body) + nLen
      bLen0 == getVariableValueLength(size0)
      grows == getVariableValueLength(size0 + bLen0) # bLen0
      byteSize == size0 + bLen0 + (IF grows THEN 1 ELSE 0)
      bytes == <<ByteAt(r, p)>> \o storeVariableValueLength(byteSize)
               \o body \o Reverse(storeVariableValueLength(n))
      written == [r EXCEPT !.buf = WriteSeqAt(r.buf, p, bytes),
                           !.pos = p + Len(bytes),
                           !.size = r.size + (p + Len(bytes)) - r.pos]
  IN IF /\ ~isArray
        /\ o.checkAttributeUniqueness
        /\ n > 1
        /\ ~checkAttributeUniqueness(r.buf, o, childOffsets, childOffsets,
                                     FALSE)
     THEN Throw(r, "DuplicateAttributeName")
     ELSE closeLevel(written)

\* the total byte length of an indexed container of n children and a body
\* of bodyLen bytes, with offsets of w bytes
IndexedLength(w, bodyLen, n) ==
  IF w = 8 THEN 9 + bodyLen + 8 * n + 8 ELSE 1 + 2 * w + bodyLen + n * w

\* the bytes by which the children move forward
IndexedShift(w) == IF w = 8 THEN 0 ELSE 9 - (1 + 2 * w)

WidthFits(w, p, r, childOffsets) ==
  /\ IndexedLength(w, r.pos - (p + 9), Len(childOffsets)) < 256 ^ w
  /\ \A k \in 1..Len(childOffsets) :
       childOffsets[k] - p - IndexedShift(w) < 256 ^ w

\* one-byte offsets never chosen
offsetSize_NeverOne(p, r, childOffsets) ==
  IF WidthFits(2, p, r, childOffsets) THEN 2
  ELSE IF WidthFits(4, p, r, childOffsets) THEN 4
  ELSE 8

offsetSize(p, r, childOffsets) ==
  IF WidthFits(1, p, r, childOffsets) THEN 1
  ELSE IF WidthFits(2, p, r, childOffsets) THEN 2
  ELSE IF WidthFits(4, p, r, childOffsets) THEN 4
  ELSE 8

Log2(w) == CASE w = 1 -> 0 [] w = 2 -> 1 [] w = 4 -> 2 [] OTHER -> 3

closeIndexed(r, o, p, isArray, childOffsets) ==
  LET n == Len(childOffsets)
      w == offsetSize(p, r, childOffsets)
      body == SubSeq(r.buf, p + 10, r.pos)
      sorted == IF isArray THEN childOffsets
                ELSE sortObjectIndex(r.buf, o, childOffsets)
      table == [k \in 1..(n * w) |->
                  LEBytes(sorted[((k - 1) \div w) + 1] - p - IndexedShift(w),
                          w)[((k - 1) % w) + 1]]
      total == IndexedLength(w, Len(body), n)
      head == IF isArray THEN 6 ELSE 11 + Log2(w)
      bytes == IF w = 8
               THEN <<head>> \o LEBytes(total, 8) \o body \o table
                    \o LEBytes(n, 8)
               ELSE <<head>> \o LEBytes(total, w) \o LEBytes(n, w) \o body
                    \o table
      \* the index sorted in place, nothing written yet
      sortedOnly == [r EXCEPT
                       !.indexes = SubSeq(r.indexes, 1, Top(r).indexStartPos)
                                   \o sorted]
  IN IF /\ ~isArray
        /\ o.checkAttributeUniqueness
        /\ n > 1
        /\ ~checkAttributeUniqueness(r.buf, o, childOffsets, sorted, TRUE)
     THEN Throw(sortedOnly, "DuplicateAttributeName")
     ELSE closeLevel([r EXCEPT !.buf = WriteSeqAt(r.buf, p, bytes),
                               !.pos = p + Len(bytes),
                               !.size = r.size + (p + Len(bytes)) - r.pos])

close(r, o) ==
  LET p == Top(r).startPos
      head == ByteAt(r, p)
      isArray == head \in {6, 19}
      childOffsets == SubSeq(r.indexes, Top(r).indexStartPos + 1,
                             Len(r.indexes))
  IN IF childOffsets = <<>> THEN closeEmptyArrayOrObject(r, p, isArray)
     ELSE IF head \in {19, 20} THEN
       closeCompactArrayOrObject(r, o, p, isArray, childOffsets)
     ELSE closeIndexed(r, o, p, isArray, childOffsets)

\* the key/value toggle left as it is
clear_KeepsKeyWritten(r) ==
  [r EXCEPT !.pos = 0, !.stack = <<>>, !.indexes = <<>>,
            !.buf = IF r.bufferPtr THEN <<>> ELSE r.buf,
            !.size = IF r.bufferPtr THEN 0 ELSE r.size]

\* the Buffer is reset only if the builder still has one
clear(r) ==
  [r EXCEPT !.pos = 0, !.stack = <<>>, !.indexes = <<>>,
            !.buf = IF r.bufferPtr THEN <<>> ELSE r.buf,
            !.size = IF r.bufferPtr THEN 0 ELSE r.size,
            !.keyWritten = FALSE]

\* the cursor moved, the Buffer left as it was
resetTo_CursorOnly(r, value) == [r EXCEPT !.pos = value]

\* _pos = value; _bufferPtr->resetTo(value)
resetTo(r, value) == [r EXCEPT !.pos = value, !.size = value]

\* the Buffer reset before it is handed out
steal_ClearsFirst(r) ==
  [clear(r) EXCEPT !.owned = FALSE, !.bufferPtr = FALSE]

\* res(std::move(_buffer)); _bufferPtr = nullptr; _start = nullptr; clear()
steal(r) == clear([r EXCEPT !.owned = FALSE, !.bufferPtr = FALSE])

\* what steal() returns: 1 for the builder's Buffer, 0 for nullptr
stealReturn(r) == IF r.owned THEN 1 ELSE 0

bufferRef(r) == IF ~r.bufferPtr THEN Throw(r, "InternalError") ELSE r

-----------------------------------------------------------------------------
(* Reading the result *)

start(r) == IF isClosed(r) THEN r ELSE Throw(r, "BuilderNotSealed")

slice(r) == IF isEmpty(r) THEN r ELSE start(r)

size(r) == IF ~isClosed(r) THEN Throw(r, "BuilderNotSealed") ELSE r

\* what size() returns when it does not throw
sizeReturn(r) == r.pos

-----------------------------------------------------------------------------
(* The builder as a state machine: one action per public member function.  *)
(* op is the call made last and err how it ended ("ok", or the exception   *)
(* it threw; a destructor throws nothing); its type is the head byte of the container that an open or   *)
(* a close is about, for a whole tree the offset it is appended at, and    *)
(* for a packed decimal the sign, for steal what it returns; its tag is    *)
(* also a decimal's exponent.                                              *)

\* what the calls are made with
Values ==
  {Value("Null"), StringValue(<<97>>), Value("Custom"),
   CompoundValue("Array", FALSE), CompoundValue("Object", FALSE)}

Slices == {SliceOf(<<49>>), SliceOf(<<40, 12>>), SliceOf(<<24>>)}

Serializables ==
  {Serializable("throw"), Serializable("add"), Serializable("addthrow")}

Keys == {<<97>>, <<98>>}

KeyedSubs == {Value("Null"), Value("Custom")}

Tags == {0, 1}

\* the values an External's pointer refers to: a Null, the String "a"
Pointees == {<<24>>, <<65, 97>>}

\* checkAttributeUniqueness is left at its default
OptionSets ==
  [attributeTranslator : BOOLEAN, disallowExternals : BOOLEAN,
   checkAttributeUniqueness : {FALSE}]

NoSub == Sub("", "", <<>>, FALSE, <<>>, "")

Call(name, type, key, tag, sub) ==
  [name |-> name, type |-> type, key |-> key, tag |-> tag, sub |-> sub]

Cur ==
  [buf |-> buffer, size |-> bufferSize, owned |-> bufferOwned,
   bufferPtr |-> bufferPtr, pos |-> pos, stack |-> stack,
   indexes |-> indexes, keyWritten |-> keyWritten, exc |-> NoExc]

\* a call can be made: the bound is not reached, and the builder has not run
\* into undefined behaviour, after which nothing is known of it
CanCall == nops < MaxOps /\ err # UB

\* the builder is left as r, the call ended as r.exc says, and the scoped
\* guards alive on this builder are g
BecomesWith(r, call, g) ==
  /\ buffer' = r.buf
  /\ bufferSize' = r.size
  /\ bufferOwned' = r.owned
  /\ bufferPtr' = r.bufferPtr
  /\ pos' = r.pos
  /\ stack' = r.stack
  /\ indexes' = r.indexes
  /\ keyWritten' = r.keyWritten
  /\ err' = IF r.exc = NoExc THEN "ok" ELSE r.exc
  /\ op' = call
  /\ nops' = nops + 1
  /\ guards' = g
  /\ UNCHANGED options

\* a call that constructs or destroys no guard
Becomes(r, call) == BecomesWith(r, call, guards)

Init ==
  /\ buffer = <<>>
  /\ bufferSize = 0
  /\ bufferOwned = TRUE
  /\ bufferPtr = TRUE
  /\ pos = 0
  /\ stack = <<>>
  /\ indexes = <<>>
  /\ keyWritten = FALSE
  /\ options \in OptionSets
  /\ guards = <<>>
  /\ op = Call("Builder", 0, <<>>, 0, NoSub)
  /\ err = "ok"
  /\ nops = 0

OpenArray ==
  /\ CanCall
  /\ \E unindexed \in BOOLEAN :
    Becomes(openArray(Cur, unindexed),
            Call("open", IF unindexed THEN 19 ELSE 6, <<>>, 0, NoSub))

OpenObject ==
  /\ CanCall
  /\ \E unindexed \in BOOLEAN :
    Becomes(openObject(Cur, unindexed),
            Call("open", IF unindexed THEN 20 ELSE 11, <<>>, 0, NoSub))

Add ==
  /\ CanCall
  /\ \E sub \in Values \cup Slices \cup Serializables :
    Becomes(addInternal(Cur, options, sub), Call("add", 0, <<>>, 0, sub))

AddKey ==
  /\ CanCall
  /\ \E attrName \in Keys, sub \in KeyedSubs :
    Becomes(addInternalKey(Cur, options, attrName, sub),
            Call("addKey", 0, attrName, 0, sub))

AddTagged ==
  /\ CanCall
  /\ \E tag \in Tags, sub \in KeyedSubs :
    Becomes(addInternalTagged(Cur, options, tag, sub),
            Call("addTagged", 0, <<>>, tag, sub))

AddTaggedKey ==
  /\ CanCall
  /\ \E tag \in Tags, sub \in KeyedSubs :
    Becomes(addInternalTaggedKey(Cur, options, <<97>>, tag, sub),
            Call("addTaggedKey", 0, <<97>>, tag, sub))

AddExternal ==
  /\ CanCall
  /\ \E pointee \in Pointees :
    Becomes(addExternal(Cur, options, pointee),
            Call("addExternal", 0, <<>>, 0, SliceOf(pointee)))

Close ==
  /\ CanCall
  /\ stack # <<>>
  /\ Becomes(close(Cur, options),
             Call("close", ByteAt(Cur, Top(Cur).startPos), <<>>, 0, NoSub))

Clear ==
  /\ CanCall
  /\ Becomes(clear(Cur), Call("clear", 0, <<>>, 0, NoSub))

GetSlice ==
  /\ CanCall
  /\ Becomes(slice(Cur), Call("slice", 0, <<>>, 0, NoSub))

GetStart ==
  /\ CanCall
  /\ Becomes(start(Cur), Call("start", 0, <<>>, 0, NoSub))

GetSize ==
  /\ CanCall
  /\ Becomes(size(Cur), Call("size", 0, <<>>, 0, NoSub))

Next ==
  \/ OpenArray
  \/ OpenObject
  \/ Add
  \/ AddKey
  \/ AddTagged
  \/ AddTaggedKey
  \/ AddExternal
  \/ Close
  \/ Clear
  \/ GetSlice
  \/ GetStart
  \/ GetSize

Spec == Init /\ [][Next]_vars

\* the builder with the cursor also moved by hand: resetTo(value)
ResetTo ==
  /\ CanCall
  /\ \E value \in 0..pos :
    Becomes(resetTo(Cur, value), Call("resetTo", value, <<>>, 0, NoSub))

NextCursor == Next \/ ResetTo

SpecCursor == Init /\ [][NextCursor]_vars

-----------------------------------------------------------------------------
(* 64-bit integers.  An int64_t or uint64_t is the sequence of its eight    *)
(* bytes, lowest first (two's complement for a negative int64_t);           *)
(* arithmetic is arithmetic modulo 2^64 on these bytes.                     *)

\* the constant n, 0 <= n <= 255
W(n) == <<n, 0, 0, 0, 0, 0, 0, 0>>

\* the constant -n, 1 <= n <= 255
WNeg(n) == <<256 - n, 255, 255, 255, 255, 255, 255, 255>>

IsNegative(a) == a[8] >= 128

\* a < b for uint64_t
RECURSIVE ULessFrom(_, _, _)
ULessFrom(a, b, i) ==
  IF i = 0 THEN FALSE
  ELSE IF a[i] # b[i] THEN a[i] < b[i]
  ELSE ULessFrom(a, b, i - 1)

ULess(a, b) == ULessFrom(a, b, 8)

\* a < b for int64_t
SLess(a, b) ==
  IF IsNegative(a) # IsNegative(b) THEN IsNegative(a) ELSE ULess(a, b)

SLessEq(a, b) == a = b \/ SLess(a, b)

RECURSIVE AddFrom(_, _, _, _)
AddFrom(a, b, i, carry) ==
  IF i > 8 THEN <<>>
  ELSE LET t == a[i] + b[i] + carry
       IN <<t % 256>> \o AddFrom(a, b, i + 1, t \div 256)

\* a + b
Add64(a, b) == AddFrom(a, b, 1, 0)

\* -a
Neg64(a) == Add64([i \in 1..8 |-> 255 - a[i]], W(1))

\* x >> 8
Shr8(x) == [i \in 1..8 |-> IF i < 8 THEN x[i + 1] ELSE 0]

\* 1 << bit
Shl1(bit) ==
  [i \in 1..8 |-> IF i = (bit \div 8) + 1 THEN 2 ^ (bit % 8) ELSE 0]

\* _pos += value; the bytes skipped are written later
advance(r, value) ==
  [r EXCEPT !.pos = r.pos + value,
            !.size = r.size + value,
            !.buf = IF r.pos + value > Len(r.buf)
                    THEN r.buf \o [i \in 1..(r.pos + value - Len(r.buf)) |-> 0]
                    ELSE r.buf]

\* do { vSize++; appendByteUnchecked(v & 0xff); v >>= 8; } while (v != 0),
\* then the head patched in at save
RECURSIVE appendUIntLoop(_, _, _, _, _)
appendUIntLoop(r, v, base, save, vSize) ==
  LET r1 == appendByteUnchecked(r, v[1])
      v1 == Shr8(v)
  IN IF v1 # W(0) THEN appendUIntLoop(r1, v1, base, save, vSize + 1)
     ELSE [r1 EXCEPT !.buf = WriteAt(r1.buf, save, base + vSize + 1)]

\* the loop left as soon as one byte or less remains
RECURSIVE appendUIntLoop_StopsEarly(_, _, _, _, _)
appendUIntLoop_StopsEarly(r, v, base, save, vSize) ==
  LET r1 == appendByteUnchecked(r, v[1])
      v1 == Shr8(v)
  IN IF ULess(W(1), v1)
     THEN appendUIntLoop_StopsEarly(r1, v1, base, save, vSize + 1)
     ELSE [r1 EXCEPT !.buf = WriteAt(r1.buf, save, base + vSize + 1)]

appendUInt_StopsEarly(r, v, base) ==
  appendUIntLoop_StopsEarly(advance(reserve(r, 9), 1), v, base, r.pos, 0)

appendUInt(r, v, base) ==
  appendUIntLoop(advance(reserve(r, 9), 1), v, base, r.pos, 0)

\* do { xSize++; x >>= 8; } while (x >= 0x80)
RECURSIVE intLengthLoop(_, _)
intLengthLoop(x, xSize) ==
  LET x1 == Shr8(x)
  IN IF ~ULess(x1, W(128)) THEN intLengthLoop(x1, xSize + 1) ELSE xSize + 1

\* the loop goes on only while x > 0x80
RECURSIVE intLengthLoop_OffByOne(_, _)
intLengthLoop_OffByOne(x, xSize) ==
  LET x1 == Shr8(x)
  IN IF ULess(W(128), x1) THEN intLengthLoop_OffByOne(x1, xSize + 1)
     ELSE xSize + 1

intLength_OffByOne(value) ==
  IF SLessEq(WNeg(128), value) /\ SLessEq(value, W(127)) THEN 1
  ELSE LET x == IF ~IsNegative(value) THEN value
                ELSE Neg64(Add64(value, W(1)))
       IN intLengthLoop_OffByOne(x, 0) + 1

intLength(value) ==
  IF SLessEq(WNeg(128), value) /\ SLessEq(value, W(127)) THEN 1
  ELSE LET x == IF ~IsNegative(value) THEN value
                ELSE Neg64(Add64(value, W(1)))
       IN intLengthLoop(x, 0) + 1

\* while (vSize-- > 0) { appendByteUnchecked(x & 0xff); x >>= 8; }
RECURSIVE appendIntLoop(_, _, _)
appendIntLoop(r, x, vSize) ==
  IF vSize = 0 THEN r
  ELSE appendIntLoop(appendByteUnchecked(r, x[1]), Shr8(x), vSize - 1)

appendInt(r, v, base) ==
  LET vSize == intLength(v)
      shift == Shl1(vSize * 8 - 1)
      x == IF vSize = 8 THEN v
           ELSE IF ~IsNegative(v) THEN v
           ELSE Add64(Add64(v, shift), shift)
  IN appendIntLoop(appendByteUnchecked(reserve(r, 1 + vSize), base + vSize),
                   x, vSize)

\* a regular signed integer written with the unsigned head
addInt_UnsignedHead(r, v) ==
  IF SLessEq(W(0), v) /\ SLessEq(v, W(9)) THEN appendByte(r, (48 + v[1]) % 256)
  ELSE IF SLess(v, W(0)) /\ SLessEq(WNeg(6), v)
       THEN appendByte(r, (64 + v[1]) % 256)
  ELSE appendInt(r, v, 39)

addInt(r, v) ==
  IF SLessEq(W(0), v) /\ SLessEq(v, W(9)) THEN appendByte(r, (48 + v[1]) % 256)
  ELSE IF SLess(v, W(0)) /\ SLessEq(WNeg(6), v)
       THEN appendByte(r, (64 + v[1]) % 256)
  ELSE appendInt(r, v, 31)

addUInt(r, v) ==
  IF ~ULess(W(9), v) THEN appendByte(r, (48 + v[1]) % 256)
  ELSE appendUInt(r, v, 39)

\* what addInt and addUInt are called with: the eight bytes of the number
IntValue(v) == Sub("Value", "Int", <<>>, FALSE, v, "")

\* the number of integers added to one builder
MaxIntOps == 1

\* bytes 1..k-1 are low, byte k is top, the bytes above are ext
Fill(k, low, top, ext) ==
  [i \in 1..8 |-> IF i < k THEN low ELSE IF i = k THEN top ELSE ext]

\* -8..11, and for every k in 1..8: 2^(8k-1)-1, 2^(8k-1), -2^(8k-1),
\* -2^(8k-1)-1, 2^(8k)-1, 2^(8(k-1)), and two numbers in between
IntInputs ==
  {W(n) : n \in 0..11} \cup {WNeg(n) : n \in 1..8}
  \cup {Fill(k, t[1], t[2], t[3]) :
          k \in 1..8,
          t \in {<<255, 127, 0>>, <<0, 128, 0>>, <<0, 128, 255>>,
                 <<255, 127, 255>>, <<255, 255, 0>>, <<0, 1, 0>>,
                 <<52, 18, 0>>, <<52, 200, 255>>}}

AddInt ==
  /\ nops < MaxIntOps
  /\ \E v \in IntInputs :
    Becomes(addInt(Cur, v), Call("addInt", 0, <<>>, 0, IntValue(v)))

AddUInt ==
  /\ nops < MaxIntOps
  /\ \E v \in IntInputs :
    Becomes(addUInt(Cur, v), Call("addUInt", 0, <<>>, 0, IntValue(v)))

NextInt ==
  \/ AddInt
  \/ AddUInt

SpecInt == Init /\ [][NextInt]_vars

-----------------------------------------------------------------------------
(* The builder fed with Strings and integers through add(Value), Objects    *)
(* opened and closed around them: the small documents of the examples.     *)

\* the number of calls made on one builder
MaxPairOps == 4

UIntValue(v) == Sub("Value", "UInt", <<>>, FALSE, v, "")

\* the Strings "a" and "b", the signed 1, 12, -7 and 300, the unsigned 12
PairValues ==
  {StringValue(<<97>>), StringValue(<<98>>), IntValue(W(1)), IntValue(W(12)),
   IntValue(WNeg(7)), IntValue(Fill(2, 44, 1, 0)), UIntValue(W(12))}

PairOpen ==
  /\ nops < MaxPairOps /\ err # UB
  /\ \E unindexed \in BOOLEAN :
    Becomes(openObject(Cur, unindexed),
            Call("open", IF unindexed THEN 20 ELSE 11, <<>>, 0, NoSub))

PairAdd ==
  /\ nops < MaxPairOps /\ err # UB
  /\ \E sub \in PairValues :
    Becomes(addInternal(Cur, options, sub), Call("add", 0, <<>>, 0, sub))

PairClose ==
  /\ nops < MaxPairOps /\ err # UB
  /\ stack # <<>>
  /\ Becomes(close(Cur, options),
             Call("close", ByteAt(Cur, Top(Cur).startPos), <<>>, 0, NoSub))

NextPair ==
  \/ PairOpen
  \/ PairAdd
  \/ PairClose

SpecPair == Init /\ [][NextPair]_vars

-----------------------------------------------------------------------------
(* The builder fed with long Strings, so that a container's length crosses  *)
(* the limit of one-byte offsets: indexed Arrays and Objects are opened,    *)
(* filled and closed.                                                       *)

\* the number of calls made on one builder
MaxWideOps == 4

\* the longest String with a one-byte head (0xbe - 0x40)
ShortStringMax == 126

\* an empty String and the longest four: two of them in a container leave
\* its length on either side of 255
WideStrings ==
  {[i \in 1..l |-> 97] : l \in {0} \cup (ShortStringMax - 3)..ShortStringMax}

CanCallWide == nops < MaxWideOps /\ err # UB

WideOpen ==
  /\ CanCallWide
  /\ \E type \in {6, 11} :
    Becomes(openCompoundValue(Cur, type), Call("open", type, <<>>, 0, NoSub))

WideAdd ==
  /\ CanCallWide
  /\ \E s \in WideStrings :
    Becomes(addInternal(Cur, options, StringValue(s)),
            Call("add", 0, <<>>, 0, StringValue(s)))

WideClose ==
  /\ CanCallWide
  /\ stack # <<>>
  /\ Becomes(close(Cur, options),
             Call("close", ByteAt(Cur, Top(Cur).startPos), <<>>, 0, NoSub))

NextWide ==
  \/ WideOpen
  \/ WideAdd
  \/ WideClose

SpecWide == Init /\ [][NextWide]_vars

-----------------------------------------------------------------------------
(* The builder with an Object open that holds up to SortShortMax + 1 keys,  *)
(* each with a Null: it is given some more keys and closed.  The keys come  *)
(* in an order that is no sorted one, with and without a key that occurs    *)
(* twice.                                                                   *)

\* the number of calls made on the filled builder
MaxSortOps == 2

\* the keys "a" < "aa" < "b" < "ba" < "c" < ...
KeyOf(j) ==
  IF j % 2 = 0 THEN <<97 + (j \div 2)>> ELSE <<97 + (j \div 2), 97>>

SortSizes == {2, 3, SortShortMax, SortShortMax + 1}

\* the i-th key added is KeyOf((i * step + shift) % m); with m the number of
\* keys and step coprime to it the keys differ, with m one less the first
\* and the last key are the same
SortSteps == {1, 5, 7}

SortShifts == {0, 3}

SortOptionSets ==
  [attributeTranslator : BOOLEAN, disallowExternals : {FALSE},
   checkAttributeUniqueness : BOOLEAN]

\* add(ks[1], Value(null)); add(ks[2], Value(null)); ...
RECURSIVE AddAll(_, _, _)
AddAll(r, o, ks) ==
  IF ks = <<>> THEN r
  ELSE AddAll(addInternalKey(r, o, Head(ks), Value("Null")), o, Tail(ks))

NewBuilder ==
  [buf |-> <<>>, size |-> 0, owned |-> TRUE, bufferPtr |-> TRUE, pos |-> 0,
   stack |-> <<>>, indexes |-> <<>>, keyWritten |-> FALSE, exc |-> NoExc]

InitSort ==
  \E type \in {11, 20}, n \in SortSizes, step \in SortSteps,
     shift \in SortShifts, d \in {0, 1}, o \in SortOptionSets :
    LET ks == [i \in 1..n |-> KeyOf((i * step + shift) % (n - d))]
        r == AddAll(openCompoundValue(NewBuilder, type), o, ks)
    IN /\ buffer = r.buf
       /\ bufferSize = r.size
       /\ bufferOwned = r.owned
       /\ bufferPtr = r.bufferPtr
       /\ pos = r.pos
       /\ stack = r.stack
       /\ indexes = r.indexes
       /\ keyWritten = r.keyWritten
       /\ options = o
       /\ guards = <<>>
       /\ op = Call("addKey", 0, ks[n], 0, Value("Null"))
       /\ err = "ok"
       /\ nops = 0

CanCallSort == nops < MaxSortOps /\ err # UB

SortAddKey ==
  /\ CanCallSort
  /\ \E attrName \in {KeyOf(0), KeyOf(1)} :
    Becomes(addInternalKey(Cur, options, attrName, Value("Null")),
            Call("addKey", 0, attrName, 0, Value("Null")))

SortClose ==
  /\ CanCallSort
  /\ stack # <<>>
  /\ Becomes(close(Cur, options),
             Call("close", ByteAt(Cur, Top(Cur).startPos), <<>>, 0, NoSub))

NextSort ==
  \/ SortAddKey
  \/ SortClose

SpecSort == InitSort /\ [][NextSort]_vars

-----------------------------------------------------------------------------
(* The builder given whole value trees: a tree is appended by the calls     *)
(* that open its containers, add its scalars and close its containers, in  *)
(* order.  A node is a Null, a String, an Array of nodes or an Object of    *)
(* <<key, node>> pairs.                                                     *)

Node(kind, str, unindexed, kids) ==
  [kind |-> kind, str |-> str, unindexed |-> unindexed, kids |-> kids]

IsScalar(t) == t.kind \in {"Null", "String"}

\* what add is called with for a scalar node
ScalarSub(t) == IF t.kind = "Null" THEN Value("Null") ELSE StringValue(t.str)

RECURSIVE BuildTree(_, _, _)
RECURSIVE BuildItems(_, _, _)
RECURSIVE BuildPairs(_, _, _)

\* add(v) for each element, a container element by its own calls
BuildItems(r, o, kids) ==
  IF kids = <<>> \/ Thrown(r) THEN r
  ELSE BuildItems(BuildTree(r, o, Head(kids)), o, Tail(kids))

\* add(key, v) for a scalar value; add(Value(key)) and the container's own
\* calls for a container value
BuildPairs(r, o, kids) ==
  IF kids = <<>> \/ Thrown(r) THEN r
  ELSE LET key == Head(kids)[1]
           val == Head(kids)[2]
           r1 == IF IsScalar(val)
                 THEN addInternalKey(r, o, key, ScalarSub(val))
                 ELSE LET rk == addInternal(r, o, StringValue(key))
                      IN IF Thrown(rk) THEN rk ELSE BuildTree(rk, o, val)
       IN BuildPairs(r1, o, Tail(kids))

BuildTree(r, o, t) ==
  IF Thrown(r) THEN r
  ELSE IF IsScalar(t) THEN addInternal(r, o, ScalarSub(t))
  ELSE LET r1 == IF t.kind = "Array" THEN openArray(r, t.unindexed)
                 ELSE openObject(r, t.unindexed)
           r2 == IF Thrown(r1) THEN r1
                 ELSE IF t.kind = "Array" THEN BuildItems(r1, o, t.kids)
                 ELSE BuildPairs(r1, o, t.kids)
       IN IF Thrown(r2) THEN r2 ELSE close(r2, o)

\* the number of trees appended to one builder
MaxTreeOps == 1

TreeLeaves == {Node("Null", <<>>, FALSE, <<>>), Node("String", <<120>>, FALSE, <<>>)}

TreeKeys == {<<97>>, <<98>>, <<97, 97>>}

\* up to two elements
TreeItems(nodes) == UNION {[1..n -> nodes] : n \in 0..2}

\* up to two pairs, of different keys
TreePairs(nodes) ==
  {ps \in UNION {[1..n -> TreeKeys \X nodes] : n \in 0..2} :
     \A i, j \in 1..Len(ps) : i # j => ps[i][1] # ps[j][1]}

\* Arrays and Objects of scalars
FlatTrees ==
  {Node("Array", <<>>, u, kids) : u \in BOOLEAN, kids \in TreeItems(TreeLeaves)}
  \cup {Node("Object", <<>>, u, kids) :
          u \in BOOLEAN, kids \in TreePairs(TreeLeaves)}

\* the containers put into containers: those of at most one child
InnerTrees == {t \in FlatTrees : Len(t.kids) <= 1}

NestedTrees ==
  {Node("Array", <<>>, u, kids) :
     u \in BOOLEAN,
     kids \in {<<c>> : c \in InnerTrees}
              \cup {<<c, Node("Null", <<>>, FALSE, <<>>)>> : c \in InnerTrees}}
  \cup {Node("Object", <<>>, u, kids) :
          u \in BOOLEAN,
          kids \in {<<<<(<<98>>), c>>>> : c \in InnerTrees}
                   \cup {<< <<(<<98>>), c>>,
                            <<(<<97>>), Node("Null", <<>>, FALSE, <<>>)>> >> :
                           c \in InnerTrees}}

Trees == TreeLeaves \cup FlatTrees \cup NestedTrees

AddTree ==
  /\ nops < MaxTreeOps
  /\ err # UB
  /\ \E t \in Trees :
    Becomes(BuildTree(Cur, options, t), Call("tree", pos, <<>>, 0, t))

NextTree == AddTree

SpecTree == Init /\ [][NextTree]_vars

-----------------------------------------------------------------------------
(* Packed decimals.  A mantissa is the sequence of its digits, one char per *)
(* digit; the exponent is an int32_t.                                       *)

\* static_cast<ValueLength>(exponent), its four low-order bytes
ExponentBytes(exponent) ==
  IF exponent >= 0 THEN LEBytes(exponent, 4)
  ELSE LET u == (exponent + 2147483647) + 1
       IN [i \in 1..4 |-> IF i = 4 THEN 128 + (u \div 16777216)
                          ELSE (u \div (256 ^ (i - 1))) % 256]

\* for (x = byteLen; x != 0; x >>= 8) n++
RECURSIVE lengthOfLength(_)
lengthOfLength(x) == IF x = 0 THEN 0 ELSE 1 + lengthOfLength(x \div 256)

\* appendLengthUnchecked<n>(v): the n low-order bytes of v
appendLengthUnchecked(r, n, bytes) == appendBytes(r, SubSeq(bytes, 1, n))

\* the bytes the mantissa loop appends: the first digit alone when the
\* number of digits is odd, then two digits to the byte
packMantissa(mantissa) ==
  LET len == Len(mantissa)
      isOdd == len % 2 # 0
      byteLen == len \div 2 + (IF isOdd THEN 1 ELSE 0)
  IN [j \in 1..byteLen |->
        IF isOdd
        THEN IF j = 1 THEN mantissa[1]
             ELSE (mantissa[2 * j - 2] * 16 + mantissa[2 * j - 1]) % 256
        ELSE (mantissa[2 * j - 1] * 16 + mantissa[2 * j]) % 256]

addBCD(r, o, sign, exponent, mantissa) ==
  IF o.disallowBCD THEN Throw(r, "BuilderBCDDisallowed")
  ELSE
    LET len == Len(mantissa)
        isOdd == len % 2 # 0
        byteLen == len \div 2 + (IF isOdd THEN 1 ELSE 0)
        n == lengthOfLength(byteLen)
        r1 == reserve(r, 1 + n + 4 + byteLen)
        r2 == appendByte(r1, ((IF sign >= 0 THEN 200 ELSE 208) + n - 1) % 256)
        r3 == appendBytes(r2, LEBytes(byteLen, n))
        r4 == appendLengthUnchecked(r3, 4, ExponentBytes(exponent))
    IN appendBytes(r4, packMantissa(mantissa))

\* what addBCD is called with: the digits and the exponent's bytes
BCDValue(mantissa, exponent) ==
  Sub("Value", "BCD", mantissa, FALSE, ExponentBytes(exponent), "")

\* the number of decimals added to one builder
MaxBCDOps == 1

\* no digit, one, two, three, and as many as take 255, 256 and 257 bytes
MantissaLengths == {0, 1, 2, 3, 510, 511, 512, 513}

\* the digits 1 2 3 ... and 9 6 3 0 7 ...
Mantissas ==
  {[i \in 1..l |-> (i * step) % 10] : l \in MantissaLengths, step \in {1, 9}}

Signs == {-1, 0, 1}

Exponents == {0, 1, -1, 258, -2147483647 - 1}

BCDOptionSets ==
  [attributeTranslator : {FALSE}, disallowExternals : {FALSE},
   checkAttributeUniqueness : {FALSE}, disallowBCD : BOOLEAN]

InitBCD ==
  /\ buffer = <<>>
  /\ bufferSize = 0
  /\ bufferOwned = TRUE
  /\ bufferPtr = TRUE
  /\ pos = 0
  /\ stack = <<>>
  /\ indexes = <<>>
  /\ keyWritten = FALSE
  /\ options \in BCDOptionSets
  /\ guards = <<>>
  /\ op = Call("Builder", 0, <<>>, 0, NoSub)
  /\ err = "ok"
  /\ nops = 0

AddBCD ==
  /\ nops < MaxBCDOps
  /\ \E sign \in Signs, exponent \in Exponents, mantissa \in Mantissas :
    Becomes(addBCD(Cur, options, sign, exponent, mantissa),
            Call("addBCD", sign, <<>>, exponent,
                 BCDValue(mantissa, exponent)))

NextBCD == AddBCD

SpecBCD == InitBCD /\ [][NextBCD]_vars

-----------------------------------------------------------------------------
(* The builder and its Buffer: a builder that owns its Buffer or borrows   *)
(* the caller's, with clear, steal, bufferRef, resetTo and advance among   *)
(* its calls.  A call that reaches through _bufferPtr or _start after      *)
(* steal has set them to nullptr is undefined behaviour.                   *)

\* the number of calls made on one builder
MaxBufOps == 5

\* the public advance(value): the bytes skipped that were never written hold
\* whatever the memory holds, here fill
advanceOver(r, value, fill) ==
  [r EXCEPT !.pos = r.pos + value,
            !.size = r.size + value,
            !.buf = IF r.pos + value > Len(r.buf)
                    THEN r.buf \o [i \in 1..(r.pos + value - Len(r.buf)) |-> fill]
                    ELSE r.buf]

BufValues == {Value("Null"), StringValue(<<97>>), Value("Custom")}

BufOptionSets ==
  [attributeTranslator : {FALSE}, disallowExternals : {FALSE},
   checkAttributeUniqueness : {FALSE}]

InitBuf ==
  /\ buffer = <<>>
  /\ bufferSize = 0
  /\ bufferOwned \in BOOLEAN
  /\ bufferPtr = TRUE
  /\ pos = 0
  /\ stack = <<>>
  /\ indexes = <<>>
  /\ keyWritten = FALSE
  /\ options \in BufOptionSets
  /\ guards = <<>>
  /\ op = Call("Builder", 0, <<>>, 0, NoSub)
  /\ err = "ok"
  /\ nops = 0

CanCallBuf == nops < MaxBufOps /\ err # UB

\* r when the builder has its Buffer, undefined behaviour when it has not
Deref(r) == IF bufferPtr THEN r ELSE Throw(Cur, UB)

BufOpen ==
  /\ CanCallBuf
  /\ \E type \in {6, 11} :
    Becomes(Deref(openCompoundValue(Cur, type)),
            Call("open", type, <<>>, 0, NoSub))

BufAdd ==
  /\ CanCallBuf
  /\ \E sub \in BufValues :
    Becomes(Deref(addInternal(Cur, options, sub)),
            Call("add", 0, <<>>, 0, sub))

BufClose ==
  /\ CanCallBuf
  /\ stack # <<>>
  /\ Becomes(Deref(close(Cur, options)),
             Call("close", ByteAt(Cur, Top(Cur).startPos), <<>>, 0, NoSub))

BufClear ==
  /\ CanCallBuf
  /\ Becomes(clear(Cur), Call("clear", 0, <<>>, 0, NoSub))

BufSteal ==
  /\ CanCallBuf
  /\ Becomes(steal(Cur), Call("steal", stealReturn(Cur), <<>>, 0, NoSub))

BufBufferRef ==
  /\ CanCallBuf
  /\ Becomes(bufferRef(Cur), Call("bufferRef", 0, <<>>, 0, NoSub))

BufResetTo ==
  /\ CanCallBuf
  /\ \E value \in 0..pos :
    Becomes(Deref(resetTo(Cur, value)),
            Call("resetTo", value, <<>>, 0, NoSub))

BufAdvance ==
  /\ CanCallBuf
  /\ \E value \in {1}, fill \in {0, 24} :
    Becomes(Deref(advanceOver(Cur, value, fill)),
            Call("advance", value, <<>>, 0, NoSub))

NextBuf ==
  \/ BufOpen
  \/ BufAdd
  \/ BufClose
  \/ BufClear
  \/ BufSteal
  \/ BufBufferRef
  \/ BufResetTo
  \/ BufAdvance

SpecBuf == InitBuf /\ [][NextBuf]_vars

-----------------------------------------------------------------------------
(* Scoped guards.  An ObjectBuilder or ArrayBuilder opens a container on    *)
(* the builder when it is constructed and closes one when it is destroyed.  *)
(* Guards are objects of block scope: the one constructed last is the one   *)
(* destroyed first, on leaving the block normally or by an exception.       *)
(* guards is the sequence of the guards alive; of each it holds the depth   *)
(* of the stack before its construction and the startPos of the frame it    *)
(* opened.                                                                   *)

\* ObjectBuilder(builder, allowUnindexed), ArrayBuilder(builder,
\* allowUnindexed)
guardConstruct(r, isArray, unindexed) ==
  IF isArray THEN openArray(r, unindexed) ELSE openObject(r, unindexed)

\* ObjectBuilder(builder, attributeName, allowUnindexed) and the same of
\* ArrayBuilder
guardConstructKey(r, o, isArray, attrName, unindexed) ==
  addInternalKey(r, o, attrName,
                 CompoundValue(IF isArray THEN "Array" ELSE "Object",
                               unindexed))

\* a destructor that closes the frame around the one it has closed as well
guardDestroy_ClosesTwice(r, o) ==
  IF ~isClosed(r)
  THEN LET r1 == close(r, o)
           r2 == IF ~isClosed(r1) THEN close(r1, o) ELSE r1
       IN [r2 EXCEPT !.exc = NoExc]
  ELSE r

\* try { if (!builder->isClosed()) builder->close(); } catch (...) { }
guardDestroy(r, o) ==
  IF ~isClosed(r)
  THEN LET r1 == close(r, o) IN [r1 EXCEPT !.exc = NoExc]
  ELSE r

\* the number of calls made on one builder, constructions and destructions
\* of guards included
MaxGuardOps == 5

GuardOptionSets ==
  [attributeTranslator : {FALSE}, disallowExternals : {FALSE},
   checkAttributeUniqueness : BOOLEAN]

Guard(r, r1) ==
  [depth |-> Len(r.stack), startPos |-> Top(r1).startPos]

InitGuard ==
  /\ buffer = <<>>
  /\ bufferSize = 0
  /\ bufferOwned = TRUE
  /\ bufferPtr = TRUE
  /\ pos = 0
  /\ stack = <<>>
  /\ indexes = <<>>
  /\ keyWritten = FALSE
  /\ options \in GuardOptionSets
  /\ guards = <<>>
  /\ op = Call("Builder", 0, <<>>, 0, NoSub)
  /\ err = "ok"
  /\ nops = 0

CanCallGuard == nops < MaxGuardOps /\ err # UB

\* a guard constructed; when its constructor throws there is no guard
GuardEnter ==
  /\ CanCallGuard
  /\ \E isArray \in BOOLEAN :
       LET r1 == guardConstruct(Cur, isArray, FALSE)
       IN BecomesWith(r1, Call("guard", IF isArray THEN 6 ELSE 11, <<>>, 0,
                               NoSub),
                      IF Thrown(r1) THEN guards
                      ELSE Append(guards, Guard(Cur, r1)))

GuardEnterKey ==
  /\ CanCallGuard
  /\ \E isArray \in BOOLEAN :
       LET r1 == guardConstructKey(Cur, options, isArray, <<98>>, FALSE)
       IN BecomesWith(r1, Call("guard", IF isArray THEN 6 ELSE 11, <<98>>, 0,
                               NoSub),
                      IF Thrown(r1) THEN guards
                      ELSE Append(guards, Guard(Cur, r1)))

\* the guard constructed last is destroyed
GuardExit ==
  /\ CanCallGuard
  /\ guards # <<>>
  /\ BecomesWith(guardDestroy(Cur, options),
                 Call("~guard",
                      IF stack = <<>> THEN 0
                      ELSE ByteAt(Cur, Top(Cur).startPos), <<>>, 0, NoSub),
                 SubSeq(guards, 1, Len(guards) - 1))

GuardAdd ==
  /\ CanCallGuard
  /\ \E sub \in {Value("Null"), Value("Custom")} :
    Becomes(addInternal(Cur, options, sub), Call("add", 0, <<>>, 0, sub))

GuardAddKey ==
  /\ CanCallGuard
  /\ Becomes(addInternalKey(Cur, options, <<97>>, Value("Null")),
             Call("addKey", 0, <<97>>, 0, Value("Null")))

\* a container opened by hand
GuardOpen ==
  /\ CanCallGuard
  /\ \E type \in {6, 11} :
    Becomes(openCompoundValue(Cur, type), Call("open", type, <<>>, 0, NoSub))

\* a container closed by hand
GuardClose ==
  /\ CanCallGuard
  /\ stack # <<>>
  /\ Becomes(close(Cur, options),
             Call("close", ByteAt(Cur, Top(Cur).startPos), <<>>, 0, NoSub))

NextGuard ==
  \/ GuardEnter
  \/ GuardEnterKey
  \/ GuardExit
  \/ GuardAdd
  \/ GuardAddKey
  \/ GuardOpen
  \/ GuardClose

SpecGuard == InitGuard /\ [][NextGuard]_vars

-----------------------------------------------------------------------------
(* Collection: forEach and filter walk an Array with a callback.  The      *)
(* Array is the sequence of its elements' encodings, which the iterator    *)
(* hands out one after the other; the callback is what it returns at each  *)
(* call, cb[i + 1] at index i.  What the callback was called with is       *)
(* logged as <<element, index>>.                                           *)

\* the log of the callback's calls
forEach(arr, cb) ==
  LET it[i \in 0..Len(arr)] ==
        IF i = 0 THEN [calls |-> <<>>, aborted |-> FALSE]
        ELSE IF it[i - 1].aborted THEN it[i - 1]
        ELSE [calls |-> Append(it[i - 1].calls, <<arr[i], i - 1>>),
              aborted |-> ~cb[i]]
  IN it[Len(arr)].calls

\* a filter that keeps the elements the callback has turned down
filter_KeepsRejected(o, arr, cb) ==
  LET it[i \in 0..Len(arr)] ==
        IF i = 0 THEN
          [b |-> addInternal(NewBuilder, o, CompoundValue("Array", FALSE)),
           calls |-> <<>>]
        ELSE
          [b |-> IF ~cb[i] /\ ~Thrown(it[i - 1].b)
                 THEN addInternal(it[i - 1].b, o, SliceOf(arr[i]))
                 ELSE it[i - 1].b,
           calls |-> Append(it[i - 1].calls, <<arr[i], i - 1>>)]
      last == it[Len(arr)]
  IN [b |-> IF Thrown(last.b) THEN last.b ELSE close(last.b, o),
      calls |-> last.calls]

\* the builder returned and the log of the callback's calls
filter(o, arr, cb) ==
  LET it[i \in 0..Len(arr)] ==
        IF i = 0 THEN
          [b |-> addInternal(NewBuilder, o, CompoundValue("Array", FALSE)),
           calls |-> <<>>]
        ELSE
          [b |-> IF cb[i] /\ ~Thrown(it[i - 1].b)
                 THEN addInternal(it[i - 1].b, o, SliceOf(arr[i]))
                 ELSE it[i - 1].b,
           calls |-> Append(it[i - 1].calls, <<arr[i], i - 1>>)]
      last == it[Len(arr)]
  IN [b |-> IF Thrown(last.b) THEN last.b ELSE close(last.b, o),
      calls |-> last.calls]

\* the longest Array walked
MaxCollLen == 3

\* a Null, the SmallInt 1, the String "a", the UInt 12
CollElements == {<<24>>, <<49>>, <<65, 97>>, <<40, 12>>}

\* the Array and the callback a call is to be made with; no builder is
\* there before filter has returned one
InitColl ==
  /\ buffer = <<>>
  /\ bufferSize = 0
  /\ bufferOwned = TRUE
  /\ bufferPtr = TRUE
  /\ pos = 0
  /\ stack = <<>>
  /\ indexes = <<>>
  /\ keyWritten = FALSE
  /\ options = [attributeTranslator |-> FALSE, disallowExternals |-> FALSE,
                checkAttributeUniqueness |-> FALSE]
  /\ guards = <<>>
  /\ \E n \in 0..MaxCollLen :
       \E arr \in [1..n -> CollElements], cb \in [1..n -> BOOLEAN] :
         op = Call("Collection", 0, <<>>, 0,
                   [slice |-> arr, cb |-> cb, calls |-> <<>>])
  /\ err = "ok"
  /\ nops = 0

CollForEach ==
  /\ op.name = "Collection"
  /\ Becomes(Cur, Call("forEach", 0, <<>>, 0,
                       [op.sub EXCEPT
                          !.calls = forEach(op.sub.slice, op.sub.cb)]))

CollFilter ==
  /\ op.name = "Collection"
  /\ LET res == filter(options, op.sub.slice, op.sub.cb)
     IN Becomes(res.b, Call("filter", 0, <<>>, 0,
                            [op.sub EXCEPT !.calls = res.calls]))

NextColl ==
  \/ CollForEach
  \/ CollFilter

SpecColl == InitColl /\ [][NextColl]_vars

-----------------------------------------------------------------------------
(* Properties *)

Failed(e) == e \notin {"ok", UB}

AddLike(call) ==
  call.name \in {"add", "addKey", "addTagged", "addTaggedKey", "addExternal",
                 "open"}

\* a value that is no string variant: a Value whose type is not String, a
\* Slice that is neither a String nor an integer token, a Serializable that
\* adds a Null
NotAString(sub) ==
  \/ sub.kind = "Value" /\ sub.t # "String"
  \/ sub.kind = "Slice" /\ ~SliceIsString(sub.bytes)
       /\ ~SliceIsSmallInt(sub.bytes) /\ ~SliceIsUInt(sub.bytes)
  \/ sub.kind = "Serializable" /\ sub.beh \in {"add", "addthrow"}

IntegerToken(sub) ==
  sub.kind = "Slice" /\ (SliceIsSmallInt(sub.bytes) \/ SliceIsUInt(sub.bytes))

BuilderUnchanged == UNCHANGED <<pos, stack, indexes, keyWritten>>

\* C1: an add-like call that fails while a frame is open leaves pos at its
\* value before the call.
C1_FailedAddRestoresPos ==
  [][(stack # <<>> /\ AddLike(op') /\ Failed(err')) => pos' = pos]_vars

\* C2: an add-like call that fails while a frame is open leaves indexes and
\* keyWritten at their values before the call.
C2_FailedAddRestoresIndexes ==
  [][(stack # <<>> /\ AddLike(op') /\ Failed(err'))
       => (indexes' = indexes /\ keyWritten' = keyWritten)]_vars

\* the number of values that lie in the innermost open frame
ChildrenOfTop == CountValues(buffer, Top(Cur).startPos + 9, pos)

\* C3: with an Object innermost, keyWritten holds exactly when the frame has
\* an odd number of children; with no frame open or an Array innermost,
\* keyWritten is false.
C3_KeyWrittenIsParity ==
  IF isOpenObject(Cur)
  THEN ChildrenOfTop # -1 /\ (keyWritten <=> ChildrenOfTop % 2 = 1)
  ELSE ~keyWritten

\* C4: in key position of an Object, adding a value that is no string variant
\* fails with BuilderKeyMustBeString and changes nothing.
C4_NonStringKeyRejected ==
  [][(isOpenObject(Cur) /\ ~keyWritten /\ op'.name = "add"
        /\ NotAString(op'.sub))
       => (err' = "BuilderKeyMustBeString" /\ BuilderUnchanged)]_vars

C4_Witness ==
  /\ op.name = "add"
  /\ op.sub.kind = "Value"
  /\ op.sub.t = "Array"
  /\ err = "BuilderKeyMustBeString"
  /\ isOpenObject(Cur)
  /\ indexes # <<>>

\* C5: without an attribute translator, a SmallInt or UInt Slice added in key
\* position of an Object fails with BuilderKeyMustBeString.
C5_IntegerKeyNeedsTranslator ==
  [][(isOpenObject(Cur) /\ ~keyWritten /\ ~options.attributeTranslator
        /\ op'.name = "add" /\ IntegerToken(op'.sub))
       => err' = "BuilderKeyMustBeString"]_vars

\* C6: add key/value fails with BuilderNeedOpenObject in an Array and with
\* BuilderKeyAlreadyWritten in an Object whose key is pending, and changes
\* nothing.
C6_KeyedAddRejected ==
  [][op'.name \in {"addKey", "addTaggedKey"}
       => /\ isOpenArray(Cur)
               => (err' = "BuilderNeedOpenObject" /\ BuilderUnchanged)
          /\ (isOpenObject(Cur) /\ keyWritten)
               => (err' = "BuilderKeyAlreadyWritten" /\ BuilderUnchanged)]_vars

C6_Witness ==
  /\ op.name = "addKey"
  /\ err = "BuilderKeyAlreadyWritten"
  /\ isOpenObject(Cur)
  /\ keyWritten

\* C7: add key/value with no frame open fails with BuilderNeedOpenObject and
\* changes nothing.
C7_KeyedAddNeedsFrame ==
  [][(stack = <<>> /\ op'.name \in {"addKey", "addTaggedKey"})
       => (err' = "BuilderNeedOpenObject" /\ BuilderUnchanged)]_vars

\* C8: open fails, with BuilderNeedOpenArray, exactly when the innermost frame
\* is an Object that awaits a key, and then changes nothing.
C8_OpenRejectedInKeyPosition ==
  [][op'.name = "open"
       => /\ err' \in {"ok", "BuilderNeedOpenArray"}
          /\ err' = "BuilderNeedOpenArray"
               <=> (isOpenObject(Cur) /\ ~keyWritten)
          /\ err' # "ok" => BuilderUnchanged]_vars

C8_Witness ==
  /\ op.name = "open"
  /\ err = "BuilderNeedOpenArray"
  /\ isOpenObject(Cur)
  /\ ~keyWritten

\* C9: a successful open writes the head and eight zero bytes, pushes one
\* frame that starts at the old pos and whose indexes start behind the entry
\* the parent recorded, records one entry in an Array parent and none
\* elsewhere, and leaves keyWritten false.
C9_OpenPushesFrame ==
  [][(op'.name = "open" /\ err' = "ok")
       => /\ pos' = pos + 9
          /\ op'.type \in {6, 19, 11, 20}
          /\ SubSeq(buffer', pos + 1, pos + 9)
               = <<op'.type, 0, 0, 0, 0, 0, 0, 0, 0>>
          /\ stack' = Append(stack, [startPos |-> pos,
                                     indexStartPos |-> Len(indexes')])
          /\ indexes' = IF isOpenArray(Cur) THEN Append(indexes, pos)
                        ELSE indexes
          /\ keyWritten' = FALSE]_vars

\* C10: slice(), start() and size() fail with BuilderNotSealed exactly when a
\* frame is open.
C10_ReadNeedsSealed ==
  [][op'.name \in {"slice", "start", "size"}
       => (err' = "BuilderNotSealed" <=> stack # <<>>)]_vars

\* C11: with no frame open and something written, size() returns the byte
\* size of the first top-level value in the buffer.
C11_SizeIsFirstValue ==
  [][(op'.name = "size" /\ err' = "ok" /\ pos > 0)
       => sizeReturn(Cur) = ValueEnd(buffer, 0, pos)]_vars

\* the frame below the innermost one
Parent == stack[Len(stack) - 1]

ParentIsArray == buffer[Parent.startPos + 1] \in {6, 19}

\* C12: a successful close pops exactly the innermost frame and truncates
\* indexes to that frame's indexStartPos, so that the frames below and their
\* entries stay as they were; in an Array parent the closed container is the
\* last recorded child; and the parent is left expecting its next element or
\* key, as after a scalar: keyWritten is false.
C12_CloseRemovesInnermostFrame ==
  [][(op'.name = "close" /\ err' = "ok")
       => /\ stack' = SubSeq(stack, 1, Len(stack) - 1)
          /\ indexes' = SubSeq(indexes, 1, Top(Cur).indexStartPos)
          /\ (Len(stack) > 1 /\ ParentIsArray)
               => /\ Len(indexes') > Parent.indexStartPos
                  /\ indexes'[Len(indexes')] = Top(Cur).startPos
          /\ keyWritten' = FALSE]_vars

\* C13: closing a frame behind whose nine header bytes nothing was written
\* succeeds, writes 0x01 (Array) or 0x0a (Object) at the frame's startPos p,
\* sets pos to p + 1 and pops the frame, for the indexed and the unindexed
\* heads alike.
C13_CloseEmptyWritesSingleton ==
  [][(op'.name = "close" /\ pos = Top(Cur).startPos + 9)
       => /\ err' = "ok"
          /\ buffer'[Top(Cur).startPos + 1]
               = (IF op'.type \in {6, 19} THEN 1 ELSE 10)
          /\ pos' = Top(Cur).startPos + 1
          /\ stack' = SubSeq(stack, 1, Len(stack) - 1)]_vars

C13_Witness ==
  /\ op.name = "close"
  /\ op.type = 20
  /\ err = "ok"
  /\ stack # <<>>
  /\ pos = Top(Cur).startPos + 10
  /\ buffer[pos] = 10

\* the children recorded for the innermost frame
OwnOffsets == SubSeq(indexes, Top(Cur).indexStartPos + 1, Len(indexes))

\* the widths w with which the container just closed is laid out: its length
\* is that of a container with offsets of w bytes, and an Object's head says w
EmittedWidths ==
  {w \in {1, 2, 4, 8} :
     /\ pos' - Top(Cur).startPos
          = IndexedLength(w, pos - (Top(Cur).startPos + 9), Len(OwnOffsets))
     /\ op'.type = 11 => buffer'[Top(Cur).startPos + 1] = 11 + Log2(w)}

\* C14: a closed indexed Array or Object is laid out with the least width w
\* of 1, 2, 4, 8 in which its total byte length and its children's offsets
\* fit: w holds the length, and with any smaller width the length would not
\* fit.
C14_MinimumWidth ==
  [][(op'.name = "close" /\ err' = "ok" /\ op'.type \in {6, 11}
        /\ OwnOffsets # <<>>)
       => \E w \in EmittedWidths :
            /\ pos' - Top(Cur).startPos < 256 ^ w
            /\ \A k \in 1..Len(OwnOffsets) :
                 OwnOffsets[k] - Top(Cur).startPos - IndexedShift(w) < 256 ^ w
            /\ \A v \in {1, 2, 4} :
                 v < w => IndexedLength(v, pos - (Top(Cur).startPos + 9),
                                        Len(OwnOffsets)) >= 256 ^ v]_vars

C14_Witness ==
  /\ op.name = "close"
  /\ op.type = 11
  /\ err = "ok"
  /\ stack = <<>>
  /\ buffer[1] = 12
  /\ pos = 259

\* the w bytes at offset i of buf, read as a little-endian number
RECURSIVE ReadLE(_, _, _)
ReadLE(buf, i, w) ==
  IF w = 0 THEN 0 ELSE buf[i + 1] + 256 * ReadLE(buf, i + 1, w - 1)

\* the offsets of the keys of the key/value pairs that fill [i, lim)
RECURSIVE KeyOffsets(_, _, _)
KeyOffsets(buf, i, lim) ==
  IF i >= lim THEN <<>>
  ELSE LET v == ValueEnd(buf, i, lim)
           e == IF v = -1 THEN -1 ELSE ValueEnd(buf, v, lim)
       IN <<i>> \o (IF e = -1 THEN <<>> ELSE KeyOffsets(buf, e, lim))

\* the indexed Object just closed, read from its bytes: offset width, byte
\* length, number of pairs, and the index table (offsets from the head)
ClosedAt == Top(Cur).startPos

ClosedWidth == 2 ^ (buffer'[ClosedAt + 1] - 11)

ClosedLength == ReadLE(buffer', ClosedAt + 1, ClosedWidth)

ClosedCount == ReadLE(buffer', ClosedAt + 1 + ClosedWidth, ClosedWidth)

ClosedTable ==
  [k \in 1..ClosedCount |->
     ReadLE(buffer',
            ClosedAt + ClosedLength - (ClosedCount - k + 1) * ClosedWidth,
            ClosedWidth)]

ClosedKey(k) == KeyBytes(buffer', ClosedAt + ClosedTable[k], options)

\* the index table lists the offset of every key of the Object once
ClosedTableIsPermutation ==
  LET keys == KeyOffsets(buffer', ClosedAt + 1 + 2 * ClosedWidth,
                         ClosedAt + ClosedLength - ClosedCount * ClosedWidth)
  IN /\ Len(keys) = ClosedCount
     /\ {keys[k] - ClosedAt : k \in 1..Len(keys)}
          = {ClosedTable[k] : k \in 1..ClosedCount}

ClosesIndexedObject ==
  op'.name = "close" /\ err' = "ok" /\ op'.type = 11 /\ OwnOffsets # <<>>

\* C15 as stated: the index table of a closed indexed Object is a
\* permutation of the offsets of its keys, and the key of every entry is
\* strictly less than the key of the next entry.
C15_KeysStrictlyIncreasing ==
  [][ClosesIndexedObject
       => /\ ClosedTableIsPermutation
          /\ \A k \in 1..(ClosedCount - 1) :
               SeqLess(ClosedKey(k), ClosedKey(k + 1))]_vars

\* C15 as amended: the index table of a closed indexed Object is a
\* permutation of the offsets of its keys, and the key of every entry is not
\* greater than the key of the next entry: strictly less when
\* checkAttributeUniqueness is set, less or equal when it is not.
C15_KeysSorted ==
  [][ClosesIndexedObject
       => /\ ClosedTableIsPermutation
          /\ \A k \in 1..(ClosedCount - 1) :
               /\ ~SeqLess(ClosedKey(k + 1), ClosedKey(k))
               /\ options.checkAttributeUniqueness
                    => SeqLess(ClosedKey(k), ClosedKey(k + 1))]_vars

\* an Object of more than SortShortMax keys closed, its index not in the
\* order of insertion
C15_Witness ==
  /\ op.name = "close"
  /\ op.type = 11
  /\ err = "ok"
  /\ stack = <<>>
  /\ buffer[1] = 11
  /\ buffer[3] > SortShortMax
  /\ buffer[buffer[2] - buffer[3] + 1] # 3

\* the encoded bytes of the value at offset off
EncodedAt(off) == SubSeq(buffer, off + 1, ValueEnd(buffer, off, pos))

\* C16: with checkAttributeUniqueness set, closing an Object fails with
\* DuplicateAttributeName exactly when two of its keys are byte-equal,
\* wherever they were inserted; without the option it never fails so.
C16_DuplicateKeysRejected ==
  [][(op'.name = "close" /\ op'.type \in {11, 20})
       => (err' = "DuplicateAttributeName"
             <=> /\ options.checkAttributeUniqueness
                 /\ \E i, j \in 1..Len(OwnOffsets) :
                      /\ i < j
                      /\ EncodedAt(OwnOffsets[i]) = EncodedAt(OwnOffsets[j]))]_vars

\* a close that failed for two equal keys that do not lie next to each other
C16_Witness ==
  /\ op.name = "close"
  /\ op.type = 11
  /\ err = "DuplicateAttributeName"
  /\ \E k \in 1..(Len(indexes) - 1) :
       /\ KeyBytes(buffer, indexes[k], options)
            = KeyBytes(buffer, indexes[k + 1], options)
       /\ indexes[k + 1] - indexes[k] > 4

\* the offset of the k-th of the values that lie one behind the other from
\* offset i on
RECURSIVE NthOffset(_, _, _, _)
NthOffset(buf, i, k, lim) ==
  IF k = 1 THEN i ELSE NthOffset(buf, ValueEnd(buf, i, lim), k - 1, lim)

\* the varint whose first byte is the byte at offset e and whose next bytes
\* lie before it
RECURSIVE ReadTailCount(_, _)
ReadTailCount(buf, e) ==
  IF buf[e + 1] < 128 THEN buf[e + 1]
  ELSE (buf[e + 1] - 128) + 128 * ReadTailCount(buf, e - 1)

\* the value at offset i, as a reader walks it: the elements of an indexed
\* Array and the pairs of an indexed Object in the order of the index table
\* (one-byte offsets), those of a compact one in the order they lie in
RECURSIVE Decode(_, _, _)
Decode(buf, i, o) ==
  LET h == buf[i + 1]
  IN CASE h = 24 -> Node("Null", <<>>, FALSE, <<>>)
       [] h >= 64 /\ h <= 190 ->
            Node("String", SubSeq(buf, i + 2, i + 1 + (h - 64)), FALSE, <<>>)
       [] h = 1 -> Node("Array", <<>>, FALSE, <<>>)
       [] h = 10 -> Node("Object", <<>>, FALSE, <<>>)
       [] h = 6 ->
            LET total == buf[i + 2]
                n == buf[i + 3]
            IN Node("Array", <<>>, FALSE,
                    [k \in 1..n |->
                       Decode(buf, i + buf[i + total - n + k], o)])
       [] h = 11 ->
            LET total == buf[i + 2]
                n == buf[i + 3]
            IN Node("Object", <<>>, FALSE,
                    [k \in 1..n |->
                       LET ko == i + buf[i + total - n + k]
                       IN <<KeyBytes(buf, ko, o),
                            Decode(buf, ValueEnd(buf, ko, i + total), o)>>])
       [] h = 19 ->
            LET total == readVariableValueLength(buf, i + 1, Len(buf))
                first == i + 1 + getVariableValueLength(total)
                n == ReadTailCount(buf, i + total - 1)
            IN Node("Array", <<>>, TRUE,
                    [k \in 1..n |->
                       Decode(buf, NthOffset(buf, first, k, i + total), o)])
       [] h = 20 ->
            LET total == readVariableValueLength(buf, i + 1, Len(buf))
                first == i + 1 + getVariableValueLength(total)
                n == ReadTailCount(buf, i + total - 1)
            IN Node("Object", <<>>, TRUE,
                    [k \in 1..n |->
                       LET ko == NthOffset(buf, first, 2 * k - 1, i + total)
                       IN <<KeyBytes(buf, ko, o),
                            Decode(buf, ValueEnd(buf, ko, i + total), o)>>])
       [] OTHER -> Node("None", <<>>, FALSE, <<>>)

\* d, read from the buffer, is the tree t that was appended: the same
\* scalars; an Array's elements in the order of insertion; an Object's pairs
\* each found under its key, in the order of the keys when the Object is
\* indexed and in the order of insertion when it is compact (an empty
\* container has one encoding for both)
RECURSIVE Matches(_, _)
Matches(d, t) ==
  /\ d.kind = t.kind
  /\ d.str = t.str
  /\ Len(d.kids) = Len(t.kids)
  /\ t.kids # <<>> => d.unindexed = t.unindexed
  /\ (t.kind = "Array" \/ (t.kind = "Object" /\ t.unindexed))
       => \A k \in 1..Len(t.kids) :
            IF t.kind = "Array" THEN Matches(d.kids[k], t.kids[k])
            ELSE /\ d.kids[k][1] = t.kids[k][1]
                 /\ Matches(d.kids[k][2], t.kids[k][2])
  /\ (t.kind = "Object" /\ ~t.unindexed)
       => /\ \A k \in 1..Len(t.kids) :
               \E j \in 1..Len(d.kids) :
                 /\ d.kids[j][1] = t.kids[k][1]
                 /\ Matches(d.kids[j][2], t.kids[k][2])
          /\ \A j \in 1..(Len(d.kids) - 1) :
               SeqLess(d.kids[j][1], d.kids[j + 1][1])

\* C18: after the calls that append a value tree, no frame is open and the
\* bytes from the offset the tree was appended at up to pos decode to that
\* tree: Array elements in insertion order, every key with its value, the
\* keys of an indexed Object in lexicographic order and those of a compact
\* Object in insertion order.
C18_RoundTrip ==
  op.name = "tree"
    => /\ err = "ok"
       /\ stack = <<>>
       /\ ValueEnd(buffer, op.type, pos) = pos
       /\ Matches(Decode(buffer, op.type, options), op.sub)

\* an indexed Object appended whose keys were not inserted in their order
\* and whose first value is a container with a child
C18_Witness ==
  /\ op.name = "tree"
  /\ err = "ok"
  /\ op.sub.kind = "Object"
  /\ ~op.sub.unindexed
  /\ Len(op.sub.kids) = 2
  /\ SeqLess(op.sub.kids[2][1], op.sub.kids[1][1])
  /\ op.sub.kids[1][2].kids # <<>>

\* the bytes above byte k of a are the sign extension of byte k
SignExtends(a, k) ==
  \A i \in (k + 1)..8 : a[i] = (IF a[k] >= 128 THEN 255 ELSE 0)

\* the bytes above byte k of a are zero
ZeroExtends(a, k) == \A i \in (k + 1)..8 : a[i] = 0

\* the bytes the call just made has appended
Emitted == SubSeq(buffer', pos + 1, pos')

\* C19: addInt(v) emits the one byte 0x30 + v for 0 <= v <= 9 and 0x40 + v
\* for -6 <= v < 0; otherwise the head 0x1f + k and the k low-order bytes of
\* v's two's complement, lowest first, for the least k in 1..8 whose k bytes
\* sign-extend to v.
C19_AddIntMinimalWidth ==
  [][op'.name = "addInt"
       => LET v == op'.sub.bytes
          IN /\ err' = "ok"
             /\ IF ZeroExtends(v, 1) /\ v[1] <= 9
                THEN Emitted = <<48 + v[1]>>
                ELSE IF SignExtends(v, 1) /\ v[1] >= 250
                THEN Emitted = <<64 + v[1] - 256>>
                ELSE \E k \in 1..8 :
                       /\ Emitted = <<31 + k>> \o SubSeq(v, 1, k)
                       /\ SignExtends(v, k)
                       /\ \A j \in 1..(k - 1) : ~SignExtends(v, j)]_vars

\* addInt(INT64_MIN)
C19_Witness ==
  /\ op.name = "addInt"
  /\ err = "ok"
  /\ op.sub.bytes = <<0, 0, 0, 0, 0, 0, 0, 128>>
  /\ buffer = <<39, 0, 0, 0, 0, 0, 0, 0, 128>>
  /\ pos = 9

\* C20: addUInt(v) emits the one byte 0x30 + v for v <= 9; otherwise the
\* head 0x27 + k and the k low-order bytes of v, lowest first, for the least
\* k in 1..8 that holds v (the last byte emitted is not zero); pos advances
\* by 1 + k.
C20_AddUIntMinimalWidth ==
  [][op'.name = "addUInt"
       => LET v == op'.sub.bytes
          IN /\ err' = "ok"
             /\ IF ZeroExtends(v, 1) /\ v[1] <= 9
                THEN Emitted = <<48 + v[1]>>
                ELSE \E k \in 1..8 :
                       /\ pos' = pos + 1 + k
                       /\ Emitted = <<39 + k>> \o SubSeq(v, 1, k)
                       /\ ZeroExtends(v, k)
                       /\ v[k] # 0]_vars

\* addUInt(256)
C20_Witness ==
  /\ op.name = "addUInt"
  /\ err = "ok"
  /\ op.sub.bytes = <<0, 1, 0, 0, 0, 0, 0, 0>>
  /\ buffer = <<41, 0, 1>>
  /\ pos = 3

\* C21: addBCD emits a head in 0xc0..0xc7 for sign >= 0 and in 0xd0..0xd7
\* for sign < 0, whatever the number of digits, then the bytes of the
\* mantissa's byte length (as many as the head says), the exponent in four
\* little-endian bytes and the packed mantissa; with disallowBCD it fails
\* with BuilderBCDDisallowed and writes nothing.
C21_BCDHeadAndLayout ==
  [][op'.name = "addBCD"
       => IF options.disallowBCD
          THEN err' = "BuilderBCDDisallowed" /\ buffer' = buffer /\ pos' = pos
          ELSE LET packed == packMantissa(op'.sub.str)
                   base == IF op'.type >= 0 THEN 192 ELSE 208
               IN /\ err' = "ok"
                  /\ Emitted # <<>>
                  /\ Emitted[1] \in base..(base + 7)
                  /\ Emitted = <<Emitted[1]>>
                                 \o LEBytes(Len(packed), Emitted[1] - base + 1)
                                 \o op'.sub.bytes \o packed]_vars

\* addExternal is not called in key position of an Object
ExternalPositionLegal == ~(isOpenObject(Cur) /\ ~keyWritten)

\* C22: with disallowExternals, addExternal fails with
\* BuilderExternalsDisallowed in every state and leaves pos, stack, indexes
\* and keyWritten as they were; without it, in a legal position, it succeeds,
\* appends 0x1d and the pointer's bytes, moves pos by 1 plus the pointer size
\* and records exactly one index entry, the offset of its head, when it is a
\* new child of an Array or stands where no key is pending in an open frame.
C22_ExternalGatedByOption ==
  [][op'.name = "addExternal"
       => IF options.disallowExternals
          THEN err' = "BuilderExternalsDisallowed" /\ BuilderUnchanged
          ELSE ExternalPositionLegal
                 => /\ err' = "ok"
                    /\ pos' = pos + 1 + Len(PointerBytes)
                    /\ Emitted = <<29>> \o PointerBytes
                    /\ (isOpenArray(Cur) \/ (stack # <<>> /\ ~keyWritten))
                         => indexes' = Append(indexes, pos)]_vars

\* C23: addExternal in key position of an open Object (externals allowed)
\* fails with BuilderKeyMustBeString and leaves the builder as it was,
\* whatever the pointer refers to: no External is written as a key.
C23_ExternalNeverKey ==
  [][(op'.name = "addExternal" /\ ~options.disallowExternals
        /\ isOpenObject(Cur) /\ ~keyWritten)
       => (err' = "BuilderKeyMustBeString" /\ BuilderUnchanged)]_vars

\* what add and addTagged are compared on: Values, Slices and Serializables
TaggedSubs == Values \cup Slices \cup Serializables

\* C24: in every state of the builder and for every value and key,
\* addTagged(0, v) leaves the builder (bytes, pos, stack, indexes,
\* keyWritten) and ends (error or none) as add(v) does, and
\* addTagged(key, 0, v) as add(key, v) does.
C24_TagZeroIsAdd ==
  err # UB
    => /\ \A sub \in TaggedSubs :
            addInternalTagged(Cur, options, 0, sub)
              = addInternal(Cur, options, sub)
       /\ \A attrName \in Keys, sub \in TaggedSubs :
            addInternalTaggedKey(Cur, options, attrName, 0, sub)
              = addInternalKey(Cur, options, attrName, sub)

\* the builder as it is after construction, owning its Buffer or not
Fresh(owned) == [NewBuilder EXCEPT !.owned = owned]

\* C25 as stated: clear() called in any reachable state sets pos to 0,
\* empties stack and indexes, resets the buffer to size 0 and sets keyWritten
\* to false: the builder is left as a freshly constructed one, so that every
\* later call does what it does on a fresh builder.
C25_ClearIsFresh ==
  [][op'.name = "clear"
       => /\ err' = "ok"
          /\ pos' = 0
          /\ stack' = <<>>
          /\ indexes' = <<>>
          /\ bufferSize' = 0
          /\ keyWritten' = FALSE
          /\ Cur' = Fresh(bufferOwned)]_vars

\* C25 as amended: clear() called in any reachable state of a builder that
\* still has its Buffer (steal was not called) leaves the builder as a
\* freshly constructed one.
C25_ClearWithBufferIsFresh ==
  [][(op'.name = "clear" /\ bufferPtr)
       => /\ err' = "ok"
          /\ pos' = 0
          /\ stack' = <<>>
          /\ indexes' = <<>>
          /\ bufferSize' = 0
          /\ keyWritten' = FALSE
          /\ Cur' = Fresh(bufferOwned)]_vars

\* clear() on a borrowed Buffer, after three other calls
C25_Witness ==
  /\ op.name = "clear"
  /\ nops >= 4
  /\ bufferPtr
  /\ ~bufferOwned
  /\ pos = 0

\* C26: steal() leaves the Buffer object as it is (not reset, the caller's
\* content unchanged); a builder that owns its Buffer returns it, holding
\* exactly the pos bytes written so far, a builder that borrowed it returns
\* nullptr; the builder is left without a Buffer, with pos 0, stack and
\* indexes empty and keyWritten false, and bufferRef() on a builder without
\* a Buffer fails with InternalError.
C26_StealHandsOverBuffer ==
  [][/\ op'.name = "steal"
          => /\ err' = "ok"
             /\ buffer' = buffer
             /\ bufferSize' = bufferSize
             /\ bufferOwned => (op'.type = 1 /\ bufferSize = pos)
             /\ ~bufferOwned => op'.type = 0
             /\ ~bufferPtr'
             /\ ~bufferOwned'
             /\ pos' = 0
             /\ stack' = <<>>
             /\ indexes' = <<>>
             /\ keyWritten' = FALSE
     /\ (op'.name = "bufferRef" /\ ~bufferPtr) => err' = "InternalError"]_vars

\* a Buffer of some bytes stolen from the builder that owned it
C26_Witness ==
  /\ op.name = "steal"
  /\ op.type = 1
  /\ bufferSize > 0
  /\ buffer # <<>>
  /\ pos = 0
  /\ ~bufferPtr

\* C28: after every call, successful or failed, the append cursor of a
\* builder that has a Buffer equals the size of that Buffer.
C28_PosIsBufferSize == bufferPtr => pos = bufferSize

\* the cursor moved back by resetTo, written bytes left behind it
C28_Witness ==
  /\ op.name = "resetTo"
  /\ err = "ok"
  /\ pos > 0
  /\ pos < Len(buffer)

\* the guard constructed last
TopGuard == guards[Len(guards)]

\* the frame the guard constructed last has opened is the innermost one:
\* every frame opened inside its scope is closed and its own is not
OwnFrameInnermost ==
  /\ Len(stack) = TopGuard.depth + 1
  /\ Top(Cur).startPos = TopGuard.startPos

\* C27: when a guard is destroyed whose own frame is the innermost one (the
\* guards inside it are destroyed, nothing else is open), its destruction
\* closes that frame, on every way out of the scope: the stack is as deep as
\* before the guard was constructed.
C27_GuardClosesOwnFrame ==
  [][(op'.name = "~guard" /\ OwnFrameInnermost)
       => /\ err' = "ok"
          /\ stack' = SubSeq(stack, 1, TopGuard.depth)]_vars

\* the first n bytes of the buffer are left as they are
PrefixUnchanged(n) == SubSeq(buffer', 1, n) = SubSeq(buffer, 1, n)

\* C29: while a frame is open, no add, open or close, successful or failed,
\* changes a byte before the startPos of the outermost open frame, and a
\* close changes no byte before the startPos of the frame it closes.
C29_SealedPrefixUntouched ==
  [][(stack # <<>> /\ (AddLike(op') \/ op'.name = "close"))
       => /\ PrefixUnchanged(stack[1].startPos)
          /\ op'.name = "close" => PrefixUnchanged(Top(Cur).startPos)]_vars

\* the offsets of the complete values that lie one behind the other in
\* [i, lim)
RECURSIVE ValueOffsets(_, _, _)
ValueOffsets(buf, i, lim) ==
  IF i >= lim THEN <<>>
  ELSE LET e == ValueEnd(buf, i, lim)
       IN IF e = -1 THEN <<>> ELSE <<i>> \o ValueOffsets(buf, e, lim)

\* of the complete values in [i, lim), the offsets of the first, the third,
\* ...: the keys, the last of which may still be without its value
RECURSIVE PairOffsets(_, _, _)
PairOffsets(buf, i, lim) ==
  IF i >= lim THEN <<>>
  ELSE LET v == ValueEnd(buf, i, lim)
           e == IF v = -1 THEN -1 ELSE ValueEnd(buf, v, lim)
       IN IF v = -1 THEN <<>>
          ELSE <<i>> \o (IF e = -1 THEN <<>> ELSE PairOffsets(buf, e, lim))

\* the entries of indexes that belong to the k-th open frame
EntriesOf(k) ==
  SubSeq(indexes, stack[k].indexStartPos + 1,
         IF k < Len(stack) THEN stack[k + 1].indexStartPos ELSE Len(indexes))

\* the offsets of the children of the k-th open frame, as they lie in the
\* buffer: the elements of an Array, the keys of an Object; the frame open
\* inside it is the last element of an Array and no key of an Object
ChildrenOf(k) ==
  LET first == stack[k].startPos + 9
      inner == k < Len(stack)
      lim == IF inner THEN stack[k + 1].startPos ELSE pos
      isArray == buffer[stack[k].startPos + 1] \in {6, 19}
      done == IF isArray THEN ValueOffsets(buffer, first, lim)
              ELSE PairOffsets(buffer, first, lim)
  IN IF inner /\ isArray THEN Append(done, stack[k + 1].startPos) ELSE done

\* C30: for every open frame, the entries of indexes from its indexStartPos
\* up to the next inner frame's indexStartPos (or the end) are the offsets of
\* the frame's children, in the order of insertion, each that of the child's
\* head byte: one per element of an Array, one per key of an Object and none
\* for an Object's values.
C30_IndexesListChildren ==
  err # UB => \A k \in 1..Len(stack) : EntriesOf(k) = ChildrenOf(k)

-----------------------------------------------------------------------------
(* Keys and the attribute translator *)

\* the bytes add key/value is to write for the key
ExpectedKeyBytes(attrName) ==
  IF options.attributeTranslator /\ translate(attrName) # <<>>
  THEN translate(attrName)
  ELSE <<64 + Len(attrName)>> \o attrName

\* a successful add key/value into an open Object has just been made
KeyedAddDone == op'.name = "addKey" /\ err' = "ok" /\ stack # <<>>

\* C31: a successful add key/value into an open Object writes, at the old
\* pos, the translator's bytes for the key when a translator is set and has
\* an entry for it and the key as a normal String otherwise; the value
\* follows immediately and ends at the new pos; exactly one entry, the key's
\* offset, is appended to indexes; keyWritten is false afterwards.
C31_KeyedAddTranslatesKey ==
  [][KeyedAddDone =>
       LET kb == ExpectedKeyBytes(op'.key)
           vb == IF op'.sub.t = "Null" THEN <<24>> ELSE <<>>
       IN /\ vb # <<>>
          /\ pos' = pos + Len(kb) + Len(vb)
          /\ SubSeq(buffer', 1, pos) = SubSeq(buffer, 1, pos)
          /\ SubSeq(buffer', pos + 1, pos') = kb \o vb
          /\ indexes' = Append(indexes, pos)
          /\ stack' = stack
          /\ keyWritten' = FALSE]_vars

\* a translated key and an untranslated key have been added to one Object
\* with the translator set
C31_Witness ==
  /\ options.attributeTranslator
  /\ op.name = "addKey" /\ err = "ok"
  /\ Len(stack) = 1 /\ Len(indexes) = 2
  /\ buffer = <<11, 0, 0, 0, 0, 0, 0, 0, 0, 49, 24, 65, 98, 24>>

-----------------------------------------------------------------------------
(* The single-pair Object {"a": 12} *)

\* openObject, add "a" and add 12 have been called on a new builder, and
\* close is being called
ClosingSinglePair ==
  /\ nops = 3 /\ err = "ok"
  /\ op.name = "add" /\ op.sub = IntValue(W(12))
  /\ stack = <<[startPos |-> 0, indexStartPos |-> 0]>>
  /\ indexes = <<9>>
  /\ SubSeq(buffer, 1, 11) = <<11, 0, 0, 0, 0, 0, 0, 0, 0, 65, 97>>
  /\ op'.name = "close"

\* C32: openObject, add key "a", add int 12, close on a new builder leaves
\* the buffer, up to pos, equal to 0x0b 0x05 0x01 0x41 0x61 0x28 0x0c 0x03.
C32_SinglePairBytes ==
  [][ClosingSinglePair =>
       /\ err' = "ok"
       /\ pos' = 8
       /\ SubSeq(buffer', 1, pos') = <<11, 5, 1, 65, 97, 40, 12, 3>>]_vars

\* C32, amended: openObject, add key "a", add int 12, close on a new builder
\* leaves the buffer, up to pos, equal to 0x0b 0x08 0x01 0x41 0x61 0x20 0x0c 0x03: the
\* byte after the head is the Object's length, 8, and 12 is a signed integer
\* of one byte, head 0x20.
C32_SinglePairBytesSigned ==
  [][ClosingSinglePair =>
       /\ err' = "ok"
       /\ pos' = 8 /\ stack' = <<>> /\ indexes' = <<>>
       /\ SubSeq(buffer', 1, pos') = <<11, 8, 1, 65, 97, 32, 12, 3>>]_vars

\* the four calls have been made
C32_Witness ==
  /\ nops = 4 /\ err = "ok" /\ op.name = "close" /\ op.type = 11
  /\ stack = <<>> /\ pos = 8
  /\ SubSeq(buffer, 1, pos) = <<11, 8, 1, 65, 97, 32, 12, 3>>

-----------------------------------------------------------------------------
(* indexes at top level *)

\* C33: whenever no frame is open, indexes is empty: a value added at top
\* level, by any form of add, records no entry, and the close of the
\* outermost frame leaves none behind.
C33_NoFrameNoIndexes == stack = <<>> => indexes = <<>>

\* an outermost Array with an element has been closed and a value has then
\* been added at top level
C33_Witness ==
  /\ stack = <<>> /\ err = "ok"
  /\ op.name \in {"add", "addKey", "addTagged", "addTaggedKey"}
  /\ nops = 4
  /\ pos > 3 /\ buffer[1] \in {6, 19}

-----------------------------------------------------------------------------
(* What the destructor of a guard closes *)

\* C34: the destruction of a guard changes nothing when no frame is open;
\* otherwise it removes at most one frame, the innermost one, whichever
\* guard or call has opened it.  So while a frame opened inside the guard's
\* scope is open, the guard's own frame stays open, and when the guard's
\* own frame was closed inside the scope, a frame around it is closed.
C34_GuardClosesInnermostOnce ==
  [][op'.name = "~guard" =>
       /\ stack = <<>> =>
            /\ stack' = <<>> /\ indexes' = indexes /\ keyWritten' = keyWritten
            /\ buffer' = buffer /\ pos' = pos
       /\ stack # <<>> =>
            \/ stack' = stack
            \/ stack' = SubSeq(stack, 1, Len(stack) - 1)
       /\ Len(stack) > TopGuard.depth + 1 =>
            /\ Len(stack') > TopGuard.depth
            /\ stack'[TopGuard.depth + 1] = stack[TopGuard.depth + 1]
       /\ (Len(stack) <= TopGuard.depth /\ stack' # stack) =>
            Len(stack') < TopGuard.depth]_vars

\* a guard was constructed, a container opened by hand inside its scope,
\* and the guard destroyed: the container is closed, the guard's frame is
\* still open
C34_Witness ==
  /\ nops = 3 /\ op.name = "~guard" /\ err = "ok"
  /\ guards = <<>>
  /\ Len(stack) = 1 /\ stack[1].startPos = 0
  /\ pos = 10

-----------------------------------------------------------------------------
(* forEach and filter *)

\* the elements of the closed Array at the start of the buffer, as a reader
\* finds them through its index table
ReadArray ==
  IF buffer[1] = 1 THEN <<>>
  ELSE LET total == buffer[2]
           n == buffer[3]
       IN [k \in 1..n |->
             LET off == buffer[total - n + k]
             IN SubSeq(buffer, off + 1, ValueEnd(buffer, off, total - n))]

\* the elements of arr at which cb holds, in their order
RECURSIVE Kept(_, _)
Kept(arr, cb) ==
  IF arr = <<>> THEN <<>>
  ELSE (IF Head(cb) THEN <<Head(arr)>> ELSE <<>>)
         \o Kept(Tail(arr), Tail(cb))

\* the callback was called once for each of the first n elements, in order,
\* with the indices 0, 1, 2, ...
CalledForFirst(n) ==
  /\ Len(op.sub.calls) = n
  /\ \A i \in 1..n : op.sub.calls[i] = <<op.sub.slice[i], i - 1>>

\* the callback returns false for one of the elements, the i-th being the
\* first
FirstRejected(i) ==
  /\ i \in 1..Len(op.sub.cb)
  /\ ~op.sub.cb[i]
  /\ \A j \in 1..(i - 1) : op.sub.cb[j]

\* C35: filter returns a builder with no frame open whose buffer is one
\* Array, of exactly the elements of the input for which the callback has
\* returned true, in their order, the callback having been called once for
\* every element with the indices 0, 1, 2, ... in order; forEach calls the
\* callback in the same order and not beyond the first element for which
\* it returns false.
C35_FilterAndForEach ==
  /\ op.name = "filter" =>
       /\ err = "ok"
       /\ stack = <<>> /\ indexes = <<>>
       /\ buffer[1] \in {1, 6}
       /\ ValueEnd(buffer, 0, pos) = pos
       /\ ReadArray = Kept(op.sub.slice, op.sub.cb)
       /\ CalledForFirst(Len(op.sub.slice))
  /\ op.name = "forEach" =>
       IF \E i \in 1..Len(op.sub.cb) : FirstRejected(i)
       THEN \A i \in 1..Len(op.sub.cb) :
              FirstRejected(i) => CalledForFirst(i)
       ELSE CalledForFirst(Len(op.sub.slice))

\* filter has kept the first and the third of three elements of different
\* lengths
C35_Witness ==
  /\ op.name = "filter"
  /\ op.sub.slice = <<<<65, 97>>, <<24>>, <<40, 12>>>>
  /\ op.sub.cb = <<TRUE, FALSE, TRUE>>
  /\ SubSeq(buffer, 1, pos) = <<6, 9, 2, 65, 97, 40, 12, 3, 5>>

====
